---- MODULE Spec2Model ----
(***************************************************************************)
(* Model of watcher-cli's change-detection and dispatch pipeline:          *)
(*   scanner.Diff      (internal/scanner)  snapshot comparison             *)
(*   Matcher.Match     (internal/match)    action filters                  *)
(*   Worker.Run        (internal/watcher)  poll / diff / dispatch loop     *)
(*   Executor.Execute  (internal/actions)  dry-run, retries, timeout and   *)
(*                                         the runners over a file store   *)
(*   template.Expand   (internal/template) token substitution              *)
(*   Supervisor.Run    (internal/watcher)  one goroutine per watch         *)
(*   Tracker           (internal/status)   counters under a mutex          *)
(* Strings are sequences of one-character strings, so that splitting,      *)
(* prefix tests, formatting and glob matching are computed, not assumed.   *)
(* Go's map iteration order is a nondeterministic choice of a permutation  *)
(* of the map's keys.                                                      *)
(***************************************************************************)
EXTENDS Integers, Sequences, FiniteSets, TLC

VARIABLES
    prev,       \* Diff: argument prev (Snapshot)
    curr,       \* Diff: argument curr (Snapshot)
    events,     \* Diff: returned []Event
    now,        \* the clock read by time.Since / time.Now
    dpc,        \* position of the Diff caller: "idle" | "call" | "done"
    ev,         \* Match: argument ev (scanner.Event)
    watch,      \* Match: argument watch (config.Watch)
    raw,        \* the watch as written in the configuration, before defaults
    loaded,     \* whether the watch comes from config.Load (defaults, Validate)
    selected,   \* Match: returned []config.Action
    lerr,       \* the error config.Load returned, "" for nil
    mpc,        \* position of the Match caller: "idle" | "load" | "rejected" |
                \* "call" | "done"
    fs,         \* the watched directory: what a scan of it returns
    cfg,        \* Worker.cfg
    dryRun,     \* Executor.DryRun
    wprev,      \* Worker.prev.data
    debounceMap,\* Worker.debounceMap
    tracker,    \* Tracker.Watches
    pending,    \* Worker.Run: the events of the cycle not yet handled
    returned,   \* Worker.Run: what Diff returned in the current cycle
    handled,    \* the handleEvent calls of the current cycle, in order
    ticks,      \* number of ticks the worker has received
    cancelled,  \* ctx.Done() is closed
    wpc,        \* position of Worker.Run: "idle" | "start" | "select" | "dispatch" |
                \* "event" | "action" | "running" | "returned" | "stopped"
    hcall,      \* the call of handleEvent under way: its event, the selected
                \* actions, the index of the loop over them, the results of the
                \* calls of run() for that action
    scanErr,    \* Worker.Run: whether the last scn.Scan() returned an error
    history,    \* the handleEvent calls of the worker so far, with their time
    xst,        \* the file system the runners act on
    xev,        \* Execute: the event the action is run for (actions.Context)
    xaction,    \* Execute: argument action (config.Action)
    xdry,       \* Executor.DryRun
    xerr,       \* Execute: the error returned, named after its attempt ("" is nil)
    xruns,      \* the calls of runner.Run made, in order
    xtracker,   \* Tracker.Watches of the caller
    xcaller,    \* the caller of Execute: "handleEvent" | "simulateCmd"
    xctx,       \* the ctx handed to Execute is done
    xstart,     \* whether that ctx was done when the call of run() under way was made
    xpc,        \* position of the caller: "idle" | "call" | "execute" | "running" |
                \* "returned" | "dispatched" | "simulated"
    swatches,   \* Supervisor.cfg.Watches: the path of each watch
    sup,        \* Supervisor.Run: its position, the next watch to start, the WaitGroup
    sprocs,     \* the goroutines: process 0 reads the status, process i runs watch i
    smu,        \* Tracker.mu: the process that holds it
    strk,       \* Tracker.Watches, shared by the processes
    scalls,     \* history: the Tracker calls that have returned, per method and key
    sctx,       \* the ctx of Supervisor.Run is cancelled
    tin,        \* Expand: argument in (the template)
    tctx,       \* Expand: argument ctx (template.Context)
    tout,       \* Expand: the local out, the string returned in the end
    tkeys,      \* Expand: the keys of repl the range has not visited yet
    tpc         \* position in Expand: "idle" | "call" | "range" | "done"

diffVars == <<prev, curr, events, dpc>>
matchVars == <<ev, watch, raw, loaded, lerr, selected, mpc>>
workerVars == <<fs, cfg, dryRun, wprev, debounceMap, tracker, pending, returned,
                handled, ticks, cancelled, wpc, hcall, scanErr, history>>
execVars == <<xst, xev, xaction, xdry, xerr, xruns, xtracker, xcaller, xctx, xstart, xpc>>
supVars == <<swatches, sup, sprocs, smu, strk, scalls, sctx>>
tplVars == <<tin, tctx, tout, tkeys, tpc>>
vars == <<diffVars, matchVars, workerVars, execVars, supVars, tplVars, now>>

----------------------------------------------------------------------------
(* Bounds of the model                                                      *)

MaxSize == 2
MaxMTime == 2
MaxActions == 2
MaxTicks == 1
MaxClock == 3
MaxRetries == 1

----------------------------------------------------------------------------
(* Generic helpers                                                          *)

\* all orders in which a Go `range` may visit the keys S of a map
Perms(S) ==
    {f \in [1..Cardinality(S) -> S] : \A i, j \in 1..Cardinality(S) : f[i] = f[j] => i = j}

Range(s) == {s[i] : i \in 1..Len(s)}

EmptyMap == [x \in {} |-> x]

Digits == <<"0", "1", "2", "3", "4", "5", "6", "7", "8", "9">>

\* fmt: an unsigned number n written in base b
RECURSIVE NatStr(_, _)
NatStr(n, b) ==
    IF n < b THEN <<Digits[n + 1]>>
    ELSE NatStr(n \div b, b) \o <<Digits[(n % b) + 1]>>

\* fmt verb %d
DecStr(n) == IF n < 0 THEN <<"-">> \o NatStr(0 - n, 10) ELSE NatStr(n, 10)

\* fmt verb %o
OctStr(n) == NatStr(n, 8)

Sep == "/"

HasPrefix(s, p) == Len(s) >= Len(p) /\ SubSeq(s, 1, Len(p)) = p

----------------------------------------------------------------------------
(* scanner: FileInfo, Snapshot, Event                                       *)

FileInfo(size, modTime, isDir, mode) ==
    [Size |-> size, ModTime |-> modTime, IsDir |-> isDir, Mode |-> mode]

\* the zero time.Time; no scanned file carries it
ZeroTime == -1

Event(path, relPath, prevPath, type, info, age_) ==
    [Path |-> path, RelPath |-> relPath, PrevPath |-> prevPath,
     Type |-> type, Info |-> info, Age |-> age_]

\* the watched root and the entries a scan of it can report
Root == <<"/", "w">>
PathA == Root \o <<"/", "a">>
PathB == Root \o <<"/", "b">>
PathC == Root \o <<"/", "c">>
Paths == {PathA, PathB, PathC}

\* permission bits 0644 and 0755
Modes == {420, 493}

\* the records of the Diff inputs: a base record and every record that
\* differs from it in one field of the signature
FileInfos ==
    {FileInfo(s, 1, FALSE, 420) : s \in 1..MaxSize}
    \cup {FileInfo(1, t, FALSE, 420) : t \in 1..MaxMTime}
    \cup {FileInfo(1, 1, FALSE, m) : m \in Modes}

Snapshots == UNION {[D -> FileInfos] : D \in SUBSET Paths}

\* filepath.Rel(root, path) for a path below root; rel falls back to path
rel(root, path) ==
    IF HasPrefix(path, root \o <<Sep>>)
    THEN SubSeq(path, Len(root) + 2, Len(path))
    ELSE path

age(info) ==
    IF info.ModTime = ZeroTime THEN 0 ELSE now - info.ModTime

\* hasChanged without the mode comparison
hasChanged_NoMode(p, c) ==
    p.Size # c.Size \/ ~(p.ModTime = c.ModTime)

\* hasChanged with the times compared by "not after" instead of "not equal"
hasChanged_NotAfter(p, c) ==
    p.Size # c.Size \/ ~(p.ModTime > c.ModTime) \/ p.Mode # c.Mode

hasChanged(p, c) ==
    p.Size # c.Size \/ ~(p.ModTime = c.ModTime) \/ p.Mode # c.Mode

\* signature without the mode
signature_NoMode(info) ==
    DecStr(info.Size) \o <<"-">> \o DecStr(info.ModTime)

signature(info) ==
    DecStr(info.Size) \o <<"-">> \o DecStr(info.ModTime) \o <<"-">> \o OctStr(info.Mode)

MapPut(m, k, v) == [x \in (DOMAIN m) \cup {k} |-> IF x = k THEN v ELSE m[x]]

MapDelete(m, k) == [x \in (DOMAIN m) \ {k} |-> m[x]]

\* the delete of a moved path left in place
CancelDelete_Kept(deletes, oldPath) == deletes

\* delete(deletes, oldPath)
CancelDelete(deletes, oldPath) == MapDelete(deletes, oldPath)

\* first loop of Diff, the first n keys of prev visited in the given order:
\* the signature table (a later key overwrites an earlier one with the same
\* signature) and the tentative deletes
RECURSIVE PrevLoop(_, _, _, _, _)
PrevLoop(root, prv, cur, order, n) ==
    IF n = 0
    THEN [prevBySignature |-> EmptyMap, deletes |-> EmptyMap]
    ELSE LET st == PrevLoop(root, prv, cur, order, n - 1)
             p == order[n]
             info == prv[p]
             sig == signature(info)
         IN  [prevBySignature |-> MapPut(st.prevBySignature, sig, p),
              deletes |->
                  IF p \notin DOMAIN cur
                  THEN MapPut(st.deletes, p,
                              Event(p, rel(root, p), <<>>, "delete", info, 0))
                  ELSE st.deletes]

\* body of the second loop of Diff for the key p of curr
CurrStep(root, prv, cur, prevBySignature, st, p) ==
    LET info == cur[p]
        sig == signature(info)
    IN  IF p \in DOMAIN prv
        THEN IF hasChanged(prv[p], info)
             THEN [st EXCEPT !.modifies =
                      Append(@, Event(p, rel(root, p), <<>>, "modify", info, age(info)))]
             ELSE st
        ELSE IF sig \in DOMAIN prevBySignature /\ prevBySignature[sig] # p
             THEN [st EXCEPT
                      !.moves = Append(@, Event(p, rel(root, p), prevBySignature[sig],
                                                "move", info, age(info))),
                      !.deletes = CancelDelete(@, prevBySignature[sig])]
             ELSE [st EXCEPT !.creates =
                      Append(@, Event(p, rel(root, p), <<>>, "create", info, age(info)))]

\* second loop of Diff, the first n keys of curr visited in the given order
RECURSIVE CurrLoop(_, _, _, _, _, _)
CurrLoop(root, prv, cur, first, order, n) ==
    IF n = 0
    THEN [modifies |-> <<>>, moves |-> <<>>, creates |-> <<>>, deletes |-> first.deletes]
    ELSE CurrStep(root, prv, cur, first.prevBySignature,
                  CurrLoop(root, prv, cur, first, order, n - 1), order[n])

\* the closing loops with the deletes appended before the creates
AppendAll_DeletesFirst(modifies, moves, creates, deletes, delOrder) ==
    modifies \o moves \o [i \in 1..Len(delOrder) |-> deletes[delOrder[i]]] \o creates

\* the four closing loops of Diff: the categories appended in a fixed order,
\* the deletes map visited in the order delOrder
AppendAll(modifies, moves, creates, deletes, delOrder) ==
    modifies \o moves \o creates \o [i \in 1..Len(delOrder) |-> deletes[delOrder[i]]]

\* Diff for one choice of the iteration orders of prev and curr
DiffLoops(root, prv, cur, prevOrder, currOrder) ==
    CurrLoop(root, prv, cur,
             PrevLoop(root, prv, cur, prevOrder, Len(prevOrder)),
             currOrder, Len(currOrder))

\* every result Diff(root, prev, curr) can return
Diff(root, prv, cur) ==
    UNION {
        LET st == DiffLoops(root, prv, cur, o[1], o[2])
        IN  {AppendAll(st.modifies, st.moves, st.creates, st.deletes, d) :
                d \in Perms(DOMAIN st.deletes)}
        : o \in Perms(DOMAIN prv) \X Perms(DOMAIN cur)}

----------------------------------------------------------------------------
(* config: Action, Condition, Watch, defaults, glob patterns                *)

\* time.Millisecond, in the nanoseconds of time.Duration
Millisecond == 1000000

\* MillisDuration.Duration
Duration(d) == d * Millisecond

\* a *bool: <<>> is nil, <<b>> points to b
NilBool == <<>>
BoolPtr(b) == <<b>>

Condition(minSize, maxSize, minAge, maxAge, onlyFiles, onlyDirs, ignoreHidden) ==
    [MinSizeBytes |-> minSize, MaxSizeBytes |-> maxSize,
     MinAge |-> minAge, MaxAge |-> maxAge,
     OnlyFiles |-> onlyFiles, OnlyDirs |-> onlyDirs, IgnoreHidden |-> ignoreHidden]

Action(name, type, include, exclude, evs, timeout, retries, overwrite, cond) ==
    [Name |-> name, Type |-> type, Include |-> include, Exclude |-> exclude,
     Events |-> evs, Cmd |-> <<>>, Dest |-> <<>>, URL |-> <<>>, Timeout |-> timeout,
     Retries |-> retries,
     Overwrite |-> overwrite, Condition |-> cond]

Watch(path, debounce, stopOnFirstMatch, actions) ==
    [Path |-> path, Debounce |-> debounce,
     StopOnFirstMatch |-> stopOnFirstMatch, Actions |-> actions]

\* strings.Split(s, sep) for a one-character separator
RECURSIVE Split(_, _)
Split(s, sep) ==
    IF \A i \in 1..Len(s) : s[i] # sep
    THEN <<s>>
    ELSE LET k == CHOOSE i \in 1..Len(s) :
                      s[i] = sep /\ \A j \in 1..(i - 1) : s[j] # sep
         IN  <<SubSeq(s, 1, k - 1)>> \o Split(SubSeq(s, k + 1, Len(s)), sep)

\* filepath.ToSlash
ToSlash(s) == [i \in 1..Len(s) |-> IF s[i] = Sep THEN "/" ELSE s[i]]

\* doublestar, one path segment against one pattern segment: `*` stands for
\* any run of characters, every other character for itself
RECURSIVE GlobSegment(_, _)
GlobSegment(pat, seg) ==
    IF pat = <<>> THEN seg = <<>>
    ELSE IF Head(pat) = "*"
         THEN \/ GlobSegment(Tail(pat), seg)
              \/ seg # <<>> /\ GlobSegment(pat, Tail(seg))
         ELSE seg # <<>> /\ Head(seg) = Head(pat) /\ GlobSegment(Tail(pat), Tail(seg))

\* doublestar, segment lists: a `**` segment stands for zero or more segments
RECURSIVE GlobSegments(_, _)
GlobSegments(pats, segs) ==
    IF pats = <<>> THEN segs = <<>>
    ELSE IF Head(pats) = <<"*", "*">>
         THEN \/ GlobSegments(Tail(pats), segs)
              \/ segs # <<>> /\ GlobSegments(pats, Tail(segs))
         ELSE /\ segs # <<>>
              /\ GlobSegment(Head(pats), Head(segs))
              /\ GlobSegments(Tail(pats), Tail(segs))

\* doublestar.PathMatch(pattern, name)
PathMatch(pattern, name) == GlobSegments(Split(pattern, Sep), Split(name, Sep))

\* Action.MatchesInclude
MatchesInclude(a, relPath) ==
    IF Len(a.Include) = 0 THEN TRUE
    ELSE \E i \in 1..Len(a.Include) : PathMatch(a.Include[i], ToSlash(relPath))

\* MatchesExclude with an include match overriding the exclude patterns
MatchesExclude_IncludeWins(a, relPath) ==
    /\ \E i \in 1..Len(a.Exclude) : PathMatch(a.Exclude[i], ToSlash(relPath))
    /\ ~\E i \in 1..Len(a.Include) : PathMatch(a.Include[i], ToSlash(relPath))

\* Action.MatchesExclude
MatchesExclude(a, relPath) ==
    IF Len(a.Exclude) = 0 THEN FALSE
    ELSE \E i \in 1..Len(a.Exclude) : PathMatch(a.Exclude[i], ToSlash(relPath))

\* the 30 s default of applyDefaults, in milliseconds
DefaultTimeout == 30000

\* applyActionDefaults leaving an unset ignore_hidden unset
applyActionDefaults_HiddenUnset(a, defaultOverwrite) ==
    [a EXCEPT
        !.Timeout = IF Duration(@) = 0 THEN DefaultTimeout ELSE @,
        !.Retries = IF @ < 0 THEN 0 ELSE @,
        !.Overwrite = IF @ = NilBool THEN BoolPtr(defaultOverwrite) ELSE @,
        !.Events = IF Len(@) = 0 THEN <<"create", "modify">> ELSE @]

\* applyDefaults and validateAction, for one action; defaultOverwrite is
\* Global.Defaults.Overwrite
applyActionDefaults(a, defaultOverwrite) ==
    [a EXCEPT
        !.Timeout = IF Duration(@) = 0 THEN DefaultTimeout ELSE @,
        !.Retries = IF @ < 0 THEN 0 ELSE @,
        !.Overwrite = IF @ = NilBool THEN BoolPtr(defaultOverwrite) ELSE @,
        !.Condition.IgnoreHidden = IF @ = NilBool THEN BoolPtr(TRUE) ELSE @,
        !.Events = IF Len(@) = 0 THEN <<"create", "modify">> ELSE @]

\* the 200 ms default of Global.Debounce, in milliseconds
DefaultDebounce == 200

\* Config.Global: debounce and Defaults.Overwrite
Global(debounce, overwrite) == [Debounce |-> debounce, Overwrite |-> overwrite]

\* applyDefaults, for one watch of a configuration with the globals g
applyDefaults(w, g) ==
    LET globalDebounce == IF Duration(g.Debounce) = 0 THEN DefaultDebounce ELSE g.Debounce
    IN  [w EXCEPT
            !.Debounce = IF Duration(@) = 0 THEN globalDebounce ELSE @,
            !.Actions = [i \in 1..Len(w.Actions) |->
                            applyActionDefaults(w.Actions[i], g.Overwrite)]]

\* strings.TrimSpace(s) == "", the blank being the white space of the model
Blank(s) == \A i \in 1..Len(s) : s[i] = " "

\* the error validateAction returns, "" for nil; the default it gives to
\* Events is in applyActionDefaults
validateAction(a) ==
    IF a.Type = "exec" /\ Blank(a.Cmd) THEN "exec action requires cmd"
    ELSE IF a.Type \in {"copy", "move", "rename"} /\ Blank(a.Dest) THEN "action requires dest"
    ELSE IF a.Type = "webhook" /\ Blank(a.URL) THEN "webhook action requires url"
    ELSE IF a.Type \notin {"exec", "copy", "move", "rename", "webhook"}
    THEN "unknown action type"
    ELSE IF a.Condition.OnlyDirs /\ a.Condition.OnlyFiles
    THEN "cannot set both only_dirs and only_files"
    ELSE ""

\* the loop of Validate over the actions of a watch, from the j-th on
RECURSIVE ValidateLoop(_, _)
ValidateLoop(w, j) ==
    IF j > Len(w.Actions) THEN ""
    ELSE IF w.Actions[j].Name = "" THEN "name required"
    ELSE IF \E i \in 1..(j - 1) : w.Actions[i].Name = w.Actions[j].Name
    THEN "duplicate action name"
    ELSE IF validateAction(w.Actions[j]) # "" THEN validateAction(w.Actions[j])
    ELSE ValidateLoop(w, j + 1)

\* Config.Validate, for one watch of an existing directory with a scan
\* interval: the error it returns, "" for nil
Validate(w) ==
    IF w.Path = <<>> THEN "path is required"
    ELSE IF Duration(w.Debounce) < 0 THEN "debounce_ms must be >= 0"
    ELSE IF Len(w.Actions) = 0 THEN "at least one action is required"
    ELSE ValidateLoop(w, 1)

----------------------------------------------------------------------------
(* match: Matcher.Match                                                     *)

eventAllowed(e, a) == e.Type \in Range(a.Events)

isHidden(relPath) ==
    LET parts == Split(relPath, Sep)
    IN  \E i \in 1..Len(parts) : parts[i] # <<>> /\ HasPrefix(parts[i], <<".">>)

\* conditionsPass with the size bounds taken as exclusive
conditionsPass_Exclusive(e, c) ==
    IF c.MinSizeBytes > 0 /\ e.Info.Size <= c.MinSizeBytes THEN FALSE
    ELSE IF c.MaxSizeBytes > 0 /\ e.Info.Size >= c.MaxSizeBytes THEN FALSE
    ELSE IF Duration(c.MinAge) > 0 /\ e.Age < Duration(c.MinAge) THEN FALSE
    ELSE IF Duration(c.MaxAge) > 0 /\ e.Age > Duration(c.MaxAge) THEN FALSE
    ELSE IF c.OnlyFiles /\ e.Info.IsDir THEN FALSE
    ELSE IF c.OnlyDirs /\ ~e.Info.IsDir THEN FALSE
    ELSE IF c.IgnoreHidden # NilBool /\ c.IgnoreHidden[1] /\ isHidden(e.RelPath) THEN FALSE
    ELSE TRUE

conditionsPass(e, c) ==
    IF c.MinSizeBytes > 0 /\ e.Info.Size < c.MinSizeBytes THEN FALSE
    ELSE IF c.MaxSizeBytes > 0 /\ e.Info.Size > c.MaxSizeBytes THEN FALSE
    ELSE IF Duration(c.MinAge) > 0 /\ e.Age < Duration(c.MinAge) THEN FALSE
    ELSE IF Duration(c.MaxAge) > 0 /\ e.Age > Duration(c.MaxAge) THEN FALSE
    ELSE IF c.OnlyFiles /\ e.Info.IsDir THEN FALSE
    ELSE IF c.OnlyDirs /\ ~e.Info.IsDir THEN FALSE
    ELSE IF c.IgnoreHidden # NilBool /\ c.IgnoreHidden[1] /\ isHidden(e.RelPath) THEN FALSE
    ELSE TRUE

\* the loop of Match without the break on StopOnFirstMatch
RECURSIVE MatchLoop_NoBreak(_, _, _, _)
MatchLoop_NoBreak(e, w, i, sel) ==
    IF i > Len(w.Actions) THEN sel
    ELSE LET a == w.Actions[i]
         IN  IF ~eventAllowed(e, a) THEN MatchLoop_NoBreak(e, w, i + 1, sel)
             ELSE IF ~MatchesInclude(a, e.RelPath) THEN MatchLoop_NoBreak(e, w, i + 1, sel)
             ELSE IF MatchesExclude(a, e.RelPath) THEN MatchLoop_NoBreak(e, w, i + 1, sel)
             ELSE IF ~conditionsPass(e, a.Condition) THEN MatchLoop_NoBreak(e, w, i + 1, sel)
             ELSE MatchLoop_NoBreak(e, w, i + 1, Append(sel, a))

\* the loop of Match from the action at index i on
RECURSIVE MatchLoop(_, _, _, _)
MatchLoop(e, w, i, sel) ==
    IF i > Len(w.Actions) THEN sel
    ELSE LET a == w.Actions[i]
         IN  IF ~eventAllowed(e, a) THEN MatchLoop(e, w, i + 1, sel)
             ELSE IF ~MatchesInclude(a, e.RelPath) THEN MatchLoop(e, w, i + 1, sel)
             ELSE IF MatchesExclude(a, e.RelPath) THEN MatchLoop(e, w, i + 1, sel)
             ELSE IF ~conditionsPass(e, a.Condition) THEN MatchLoop(e, w, i + 1, sel)
             ELSE IF w.StopOnFirstMatch THEN Append(sel, a)
             ELSE MatchLoop(e, w, i + 1, Append(sel, a))

Match(e, w) == MatchLoop(e, w, 1, <<>>)

----------------------------------------------------------------------------
(* actions: Executor.Execute; status: Tracker                               *)

\* the error of the k-th attempt of a runner
ErrNames == <<"err1", "err2", "err3", "err4">>

\* the retry loop with one attempt less than Retries + 1
RECURSIVE ExecuteLoop_OneLess(_, _, _, _)
ExecuteLoop_OneLess(action, results, attempt, lastErr) ==
    IF attempt >= action.Retries /\ attempt > 0
    THEN [Err |-> IF lastErr = "" THEN "unknown action error" ELSE lastErr,
          Attempts |-> attempt, Returned |-> TRUE]
    ELSE IF attempt + 1 > Len(results)
    THEN [Err |-> "", Attempts |-> attempt, Returned |-> FALSE]
    ELSE IF ~results[attempt + 1]
         THEN ExecuteLoop_OneLess(action, results, attempt + 1, ErrNames[attempt + 1])
         ELSE [Err |-> "", Attempts |-> attempt + 1, Returned |-> TRUE]

\* the retry loop keeping the first error instead of the last
RECURSIVE ExecuteLoop_FirstErr(_, _, _, _)
ExecuteLoop_FirstErr(action, results, attempt, lastErr) ==
    IF attempt > action.Retries
    THEN [Err |-> IF lastErr = "" THEN "unknown action error" ELSE lastErr,
          Attempts |-> attempt, Returned |-> TRUE]
    ELSE IF attempt + 1 > Len(results)
    THEN [Err |-> "", Attempts |-> attempt, Returned |-> FALSE]
    ELSE IF ~results[attempt + 1]
         THEN ExecuteLoop_FirstErr(action, results, attempt + 1,
                                   IF lastErr = "" THEN ErrNames[attempt + 1] ELSE lastErr)
         ELSE [Err |-> "", Attempts |-> attempt + 1, Returned |-> TRUE]

\* the retry loop going on to the next attempt after a success
RECURSIVE ExecuteLoop_NoStop(_, _, _, _)
ExecuteLoop_NoStop(action, results, attempt, lastErr) ==
    IF attempt > action.Retries
    THEN [Err |-> IF \E k \in 1..attempt : results[k] THEN "" ELSE lastErr,
          Attempts |-> attempt, Returned |-> TRUE]
    ELSE IF attempt + 1 > Len(results)
    THEN [Err |-> "", Attempts |-> attempt, Returned |-> FALSE]
    ELSE ExecuteLoop_NoStop(action, results, attempt + 1,
                            IF results[attempt + 1] THEN lastErr ELSE ErrNames[attempt + 1])

\* the retry loop of Execute from the given attempt on, run on the calls
\* of run() that have returned so far: results[k] tells whether the k-th
\* call returned nil.  Returned tells whether Execute has returned, with
\* the error Err ("" is nil), or is about to make its next call of run();
\* Attempts is the number of calls made
RECURSIVE ExecuteLoop(_, _, _, _)
ExecuteLoop(action, results, attempt, lastErr) ==
    IF attempt > action.Retries
    THEN [Err |-> IF lastErr = "" THEN "unknown action error" ELSE lastErr,
          Attempts |-> attempt, Returned |-> TRUE]
    ELSE IF attempt + 1 > Len(results)
    THEN [Err |-> "", Attempts |-> attempt, Returned |-> FALSE]
    ELSE IF ~results[attempt + 1]
         THEN ExecuteLoop(action, results, attempt + 1, ErrNames[attempt + 1])
         ELSE [Err |-> "", Attempts |-> attempt + 1, Returned |-> TRUE]

\* Executor.Execute with the dry-run test left out
Execute_NoDryRun(dry, action, results) ==
    ExecuteLoop(action, results, 0, "")

\* Executor.Execute, every action type of a validated configuration having
\* a runner: where it stands once the calls of run() in results have
\* returned
Execute(dry, action, results) ==
    IF dry THEN [Err |-> "", Attempts |-> 0, Returned |-> TRUE]
    ELSE ExecuteLoop(action, results, 0, "")

Counter(eventsSeen, actionsRun, actionsOK, actionsError, lastError, lastRun) ==
    [EventsSeen |-> eventsSeen, ActionsRun |-> actionsRun, ActionsOK |-> actionsOK,
     ActionsError |-> actionsError, LastError |-> lastError, LastRun |-> lastRun]

\* Tracker.ensure
ensure(t, name) ==
    IF name \in DOMAIN t THEN t ELSE MapPut(t, name, Counter(0, 0, 0, 0, "", ZeroTime))

\* Tracker.IncEvent
IncEvent(t, name) ==
    LET t1 == ensure(t, name)
    IN  [t1 EXCEPT ![name].EventsSeen = @ + 1, ![name].LastRun = now]

\* Tracker.IncAction
IncAction(t, name, ok, errStr) ==
    LET t1 == ensure(t, name)
    IN  [t1 EXCEPT ![name].ActionsRun = @ + 1,
                   ![name].ActionsOK = IF ok THEN @ + 1 ELSE @,
                   ![name].ActionsError = IF ok THEN @ ELSE @ + 1,
                   ![name].LastError = IF ok THEN @ ELSE errStr,
                   ![name].LastRun = now]

----------------------------------------------------------------------------
(* path/filepath and template: Expand                                       *)

\* the index of the last separator of p, 0 if there is none
LastSep(p) ==
    IF \A i \in 1..Len(p) : p[i] # Sep THEN 0
    ELSE CHOOSE i \in 1..Len(p) : p[i] = Sep /\ \A j \in (i + 1)..Len(p) : p[j] # Sep

\* filepath.Clean for paths without "." and ".." elements: repeated
\* separators collapse, a trailing separator is dropped, "" becomes "."
RECURSIVE Clean(_)
Clean(p) ==
    IF p = <<>> THEN <<".">>
    ELSE IF \E i \in 1..(Len(p) - 1) : p[i] = Sep /\ p[i + 1] = Sep
    THEN LET i == CHOOSE k \in 1..(Len(p) - 1) : p[k] = Sep /\ p[k + 1] = Sep
         IN  Clean(SubSeq(p, 1, i) \o SubSeq(p, i + 2, Len(p)))
    ELSE IF Len(p) > 1 /\ p[Len(p)] = Sep THEN Clean(SubSeq(p, 1, Len(p) - 1))
    ELSE p

\* filepath.Dir
Dir(p) ==
    LET i == LastSep(p)
    IN  IF i = 0 THEN <<".">> ELSE Clean(SubSeq(p, 1, i))

\* filepath.Base of a path that does not end in a separator
Base(p) == IF p = <<>> THEN <<".">> ELSE SubSeq(p, LastSep(p) + 1, Len(p))

\* filepath.Join of two elements
Join(a, b) ==
    IF a = <<>> THEN (IF b = <<>> THEN <<>> ELSE Clean(b))
    ELSE IF b = <<>> THEN Clean(a)
    ELSE Clean(a \o <<Sep>> \o b)

\* strings.LastIndex(name, "."), counted from 0; -1 if there is none
LastDot(name) ==
    IF \A i \in 1..Len(name) : name[i] # "." THEN -1
    ELSE (CHOOSE i \in 1..Len(name) :
              name[i] = "." /\ \A j \in (i + 1)..Len(name) : name[j] # ".") - 1

\* the positions at which old occurs in s
Occurrences(s, old) ==
    {i \in 1..(Len(s) - Len(old) + 1) :
        s[i] = old[1] /\ SubSeq(s, i, i + Len(old) - 1) = old}

\* strings.ReplaceAll for a non-empty old: the leftmost occurrence is
\* replaced, then those of the rest of the string
RECURSIVE ReplaceAll(_, _, _)
ReplaceAll(s, old, new) ==
    LET occ == Occurrences(s, old)
    IN  IF occ = {} THEN s
        ELSE LET k == CHOOSE i \in occ : \A j \in occ : i <= j
             IN  SubSeq(s, 1, k - 1) \o new
                 \o ReplaceAll(SubSeq(s, k + Len(old), Len(s)), old, new)

\* template.Context, as BuildTemplateContext fills it from the event
TemplateContext(e) ==
    [Path |-> e.Path, RelPath |-> e.RelPath, Event |-> e.Type,
     Size |-> e.Info.Size, Age |-> e.Age]

\* the tokens of Expand ({mtime} and {age_days} are in no template of the
\* model and are left out of the table)
TokPath == <<"{", "p", "a", "t", "h", "}">>
TokDir == <<"{", "d", "i", "r", "}">>
TokName == <<"{", "n", "a", "m", "e", "}">>
Tokens ==
    <<TokPath,
      <<"{", "r", "e", "l", "p", "a", "t", "h", "}">>,
      <<"{", "e", "v", "e", "n", "t", "}">>,
      <<"{", "s", "i", "z", "e", "}">>,
      <<"{", "a", "g", "e", "_", "m", "s", "}">>,
      TokDir,
      TokName,
      <<"{", "s", "t", "e", "m", "}">>,
      <<"{", "e", "x", "t", "}">>>>

\* an event type as a string of characters
TypeChars(type) ==
    CASE type = "create" -> <<"c", "r", "e", "a", "t", "e">>
      [] type = "modify" -> <<"m", "o", "d", "i", "f", "y">>
      [] type = "delete" -> <<"d", "e", "l", "e", "t", "e">>
      [] type = "move" -> <<"m", "o", "v", "e">>
      [] OTHER -> <<>>

\* the table repl of Expand, by index into Tokens
Repl(ctx) ==
    LET name == Base(ctx.Path)
        dot == LastDot(name)
    IN  <<ctx.Path, ctx.RelPath, TypeChars(ctx.Event), DecStr(ctx.Size),
          DecStr(ctx.Age \div Millisecond), Dir(ctx.Path), name,
          IF dot > 0 THEN SubSeq(name, 1, dot) ELSE name,
          IF dot > 0 THEN SubSeq(name, dot + 1, Len(name)) ELSE <<>>>>

\* the loop of Expand over the table, visited in the given order of indices
RECURSIVE ExpandLoop(_, _, _)
ExpandLoop(out, repl, order) ==
    IF order = <<>> THEN out
    ELSE ExpandLoop(ReplaceAll(out, Tokens[Head(order)], repl[Head(order)]),
                    repl, Tail(order))

\* template.Expand, the range over the map repl visiting the keys of order
\* one after the other; a key that is not in order is one whose token is
\* in no string the loop can hold, which leaves out as it is wherever the
\* range visits it
Expand(in, ctx, order) == ExpandLoop(in, Repl(ctx), order)

\* the number of characters c in s
Count(s, c) == Cardinality({i \in 1..Len(s) : s[i] = c})

\* the number of braces in s
Braces(s) == Count(s, "{") + Count(s, "}")

\* every brace of s is the first or the last character of a token of the
\* table that is in s whole
Whole(s) ==
    \/ Braces(s) = 0
    \/ LET n == Cardinality(UNION {{<<k, i>> : i \in Occurrences(s, Tokens[k])} :
                                      k \in 1..Len(Tokens)})
       IN  Count(s, "{") = n /\ Count(s, "}") = n

\* the keys whose token can be in out at some point of the range.  When
\* the braces of the template and of the values all belong to whole tokens,
\* a replacement brings in only the tokens of the value, so these are the
\* tokens of the template and of the values; otherwise a replacement may
\* complete a token from parts, and every key is kept
LiveKeys(in, repl) ==
    IF Whole(in) /\ \A j \in 1..Len(repl) : Whole(repl[j])
    THEN {k \in 1..Len(Tokens) :
            \/ Occurrences(in, Tokens[k]) # {}
            \/ \E j \in 1..Len(repl) :
                  Braces(repl[j]) > 0 /\ Occurrences(repl[j], Tokens[k]) # {}}
    ELSE 1..Len(Tokens)

\* the sequences that hold each element of S once
RECURSIVE Orderings(_)
Orderings(S) ==
    IF S = {} THEN {<<>>}
    ELSE UNION {{<<x>> \o o : o \in Orderings(S \ {x})} : x \in S}

\* the orders in which `for k, v := range repl` may visit the live keys:
\* every one, the iteration order of a Go map being unspecified
RangeOrders(in, ctx) == Orderings(LiveKeys(in, Repl(ctx)))

----------------------------------------------------------------------------
(* actions: the runners, over a file store                                  *)

\* a file system: the content of every regular file and the directories
Store(files, dirs) == [Files |-> files, Dirs |-> dirs]

\* os.Stat(p) returns no error
Exists(st, p) == p \in DOMAIN st.Files \/ p \in st.Dirs

\* what one attempt meets: Rename, os.Rename fails; Fail, the first other
\* call that fails ("none" if none does; "Start" is the program of an exec
\* action not being found); Ok, the process exits with status 0; Status,
\* the status code of the response to the request; Slow, the work would
\* take longer than the timeout of the attempt (for a request: no answer
\* comes before the request is ended); Order, the order in which the
\* range of Expand visits the live keys
Env(rename, fail, ok, status, slow, order) ==
    [Rename |-> rename, Fail |-> fail, Ok |-> ok, Status |-> status, Slow |-> slow,
     Order |-> order]

\* the result of an attempt or of a step of it: the store afterwards and
\* the error ("" is nil)
Result(st, err) == [St |-> st, Err |-> err]

\* os.MkdirAll(p, 0o755)
RECURSIVE MkdirAll(_, _, _)
MkdirAll(st, p, env) ==
    IF env.Fail = "MkdirAll" THEN Result(st, "mkdir")
    ELSE IF p \in st.Dirs \/ p = <<".">> THEN Result(st, "")
    ELSE IF p \in DOMAIN st.Files THEN Result(st, "mkdir")
    ELSE LET parent == MkdirAll(st, Dir(p), env)
         IN  IF parent.Err # "" THEN parent
             ELSE Result([parent.St EXCEPT !.Dirs = @ \cup {p}], "")

\* scanner.EnsureDir, which no command of the repository calls
EnsureDir(st, path, env) ==
    IF path = <<>> THEN Result(st, "empty path") ELSE MkdirAll(st, path, env)

\* copyFile with the existence test left out
copyFile_NoExistCheck(st, src, dest, overwrite, env) ==
    LET mk == MkdirAll(st, Dir(dest), env)
    IN  IF mk.Err # "" THEN mk
        ELSE IF ~Exists(mk.St, src) \/ env.Fail = "Open" THEN Result(mk.St, "open")
        ELSE IF dest \in mk.St.Dirs \/ env.Fail = "Create" THEN Result(mk.St, "create")
        ELSE LET created == [mk.St EXCEPT !.Files = MapPut(@, dest, "")]
             IN  IF src \in created.Dirs \/ env.Fail = "Copy"
                 THEN Result(created, "copy")
                 ELSE Result([created EXCEPT !.Files[dest] = created.Files[src]], "")

\* copyFile: os.Stat, os.MkdirAll, os.Open, os.Create (which truncates an
\* existing file), io.Copy
copyFile(st, src, dest, overwrite, env) ==
    IF ~overwrite /\ Exists(st, dest) THEN Result(st, "dest exists")
    ELSE LET mk == MkdirAll(st, Dir(dest), env)
         IN  IF mk.Err # "" THEN mk
             ELSE IF ~Exists(mk.St, src) \/ env.Fail = "Open" THEN Result(mk.St, "open")
             ELSE IF dest \in mk.St.Dirs \/ env.Fail = "Create" THEN Result(mk.St, "create")
             ELSE LET created == [mk.St EXCEPT !.Files = MapPut(@, dest, "")]
                  IN  IF src \in created.Dirs \/ env.Fail = "Copy"
                      THEN Result(created, "copy")
                      ELSE Result([created EXCEPT !.Files[dest] = created.Files[src]], "")

\* os.Rename(src, dest) of a regular file returns no error
RenameOK(st, src, dest, env) ==
    /\ ~env.Rename
    /\ src \in DOMAIN st.Files
    /\ dest \notin st.Dirs
    /\ Dir(dest) \in st.Dirs

\* the store after a successful os.Rename(src, dest)
RenameStore(st, src, dest) ==
    IF src = dest THEN st
    ELSE [st EXCEPT !.Files = MapDelete(MapPut(@, dest, st.Files[src]), src)]

\* os.Remove(src) of a regular file
Remove(st, src, env) ==
    IF env.Fail = "Remove" \/ src \notin DOMAIN st.Files THEN Result(st, "remove")
    ELSE Result([st EXCEPT !.Files = MapDelete(@, src)], "")

\* moveFile reporting success when the source cannot be removed
moveFile_IgnoreRemove(st, src, dest, overwrite, env) ==
    IF ~overwrite /\ Exists(st, dest) THEN Result(st, "dest exists")
    ELSE LET mk == MkdirAll(st, Dir(dest), env)
         IN  IF mk.Err # "" THEN mk
             ELSE IF RenameOK(mk.St, src, dest, env)
             THEN Result(RenameStore(mk.St, src, dest), "")
             ELSE LET cp == copyFile(mk.St, src, dest, overwrite, env)
                  IN  IF cp.Err # "" THEN cp
                      ELSE Result(Remove(cp.St, src, env).St, "")

\* moveFile: os.Stat, os.MkdirAll, os.Rename, then copyFile and os.Remove
moveFile(st, src, dest, overwrite, env) ==
    IF ~overwrite /\ Exists(st, dest) THEN Result(st, "dest exists")
    ELSE LET mk == MkdirAll(st, Dir(dest), env)
         IN  IF mk.Err # "" THEN mk
             ELSE IF RenameOK(mk.St, src, dest, env)
             THEN Result(RenameStore(mk.St, src, dest), "")
             ELSE LET cp == copyFile(mk.St, src, dest, overwrite, env)
                  IN  IF cp.Err # "" THEN cp
                      ELSE Remove(cp.St, src, env)

\* the destination CopyMoveRunner.Run computes from the expanded template
RunnerDest(e, action, destTmpl) ==
    IF action.Type = "rename" /\ e.RelPath # <<>>
    THEN Join(Dir(e.Path), destTmpl)
    ELSE destTmpl

\* CopyMoveRunner.Run
CopyMoveRun(st, e, action, env) ==
    LET destTmpl == Expand(action.Dest, TemplateContext(e), env.Order)
        dest == RunnerDest(e, action, destTmpl)
        overwrite == IF action.Overwrite # NilBool THEN action.Overwrite[1] ELSE FALSE
    IN  IF destTmpl = <<>> THEN Result(st, "empty dest")
        ELSE IF action.Type = "copy" THEN copyFile(st, e.Path, dest, overwrite, env)
        ELSE moveFile(st, e.Path, dest, overwrite, env)

\* http.NewRequestWithContext returns no error for the URL: url.Parse
\* rejects a path where a % is not followed by two hexadecimal digits
RequestOK(url) ==
    LET HexDigits == Range(Digits) \cup {"a", "b", "c", "d", "e", "f",
                                            "A", "B", "C", "D", "E", "F"}
    IN  \A i \in 1..Len(url) :
        url[i] = "%" =>
            /\ i + 2 <= Len(url)
            /\ url[i + 1] \in HexDigits
            /\ url[i + 2] \in HexDigits

\* WebhookRunner.Run taking a status as a failure from 400 on
WebhookRun_From400(e, action, env, ctxDone) ==
    LET url == Expand(action.URL, TemplateContext(e), env.Order)
    IN  IF url = <<>> THEN [Err |-> "", Sent |-> FALSE]
        ELSE IF ~RequestOK(url) THEN [Err |-> "invalid URL escape", Sent |-> FALSE]
        ELSE IF ctxDone THEN [Err |-> "context canceled", Sent |-> TRUE]
        ELSE IF env.Slow THEN [Err |-> "deadline exceeded", Sent |-> TRUE]
        ELSE IF env.Fail = "Do" THEN [Err |-> "transport", Sent |-> TRUE]
        ELSE IF env.Status >= 400 THEN [Err |-> "webhook status", Sent |-> TRUE]
        ELSE [Err |-> "", Sent |-> TRUE]

\* WebhookRunner.Run under a ctx that is done already (ctxDone) or whose
\* timeout fires when the request is slow: the error returned and whether
\* the request was handed to client.Do, which returns the error of a ctx
\* that is done
WebhookRun(e, action, env, ctxDone) ==
    LET url == Expand(action.URL, TemplateContext(e), env.Order)
    IN  IF url = <<>> THEN [Err |-> "", Sent |-> FALSE]
        ELSE IF ~RequestOK(url) THEN [Err |-> "invalid URL escape", Sent |-> FALSE]
        ELSE IF ctxDone THEN [Err |-> "context canceled", Sent |-> TRUE]
        ELSE IF env.Slow THEN [Err |-> "deadline exceeded", Sent |-> TRUE]
        ELSE IF env.Fail = "Do" THEN [Err |-> "transport", Sent |-> TRUE]
        ELSE IF env.Status >= 300 THEN [Err |-> "webhook status", Sent |-> TRUE]
        ELSE [Err |-> "", Sent |-> TRUE]

\* strings.Fields(s), the blank being the only white space of the model
Fields(s) == SelectSeq(Split(s, " "), LAMBDA f : f # <<>>)

\* ExecRunner.Run under a ctx that is done already (ctxDone) or whose
\* timeout fires when the process is slow: the error returned and whether
\* a process was started.  A command that expands to no field returns nil
\* at once; cmd.Run starts no process when the program is not found or
\* the ctx is done
ExecRun(e, action, env, ctxDone) ==
    LET cmdStr == Expand(action.Cmd, TemplateContext(e), env.Order)
        parts == Fields(cmdStr)
    IN  IF Len(parts) = 0 THEN [Err |-> "", Started |-> FALSE]
        ELSE IF env.Fail = "Start" THEN [Err |-> "not found", Started |-> FALSE]
        ELSE IF ctxDone THEN [Err |-> "context canceled", Started |-> FALSE]
        ELSE IF env.Slow THEN [Err |-> "deadline exceeded", Started |-> TRUE]
        ELSE IF env.Ok THEN [Err |-> "", Started |-> TRUE]
        ELSE [Err |-> "exit status", Started |-> TRUE]

\* the timeout Execute gives an attempt, in milliseconds
AttemptTimeout(action) == IF action.Timeout = 0 THEN DefaultTimeout ELSE action.Timeout

\* the time the work of an attempt takes when nothing stops it, in
\* milliseconds
WorkTime(action, env) == IF env.Slow THEN AttemptTimeout(action) + 1 ELSE 1

\* the Timeout of the http.Client WebhookRunner.Run makes when its Client
\* is nil, as it is in the runner NewRegistry registers, in milliseconds
ClientTimeout == 10000

\* the time after which a request that gets no answer is ended: by ctxRun
\* or by the Timeout of the client, whichever comes first
RequestTimeout(action) ==
    IF AttemptTimeout(action) < ClientTimeout THEN AttemptTimeout(action)
    ELSE ClientTimeout

\* one call of run(): the runner of the action's type under ctxRun, the
\* parent ctx being done (ctxDone) or not when the call is made.  Pre and
\* St are the store before and after, Spawned tells whether a process was
\* started or a request handed to client.Do, Elapsed is the time the call
\* took.  ExecRunner and WebhookRunner hand ctxRun to exec.CommandContext
\* and http.NewRequestWithContext, which end the work with an error when
\* the timeout fires, the client of the webhook ending it after its own
\* Timeout when that is shorter; CopyMoveRunner.Run does not use its ctx
runAttempt(st, e, action, env, ctxDone) ==
    IF action.Type = "webhook"
    THEN LET r == WebhookRun(e, action, env, ctxDone)
         IN  [Pre |-> st, St |-> st, Err |-> r.Err, Spawned |-> r.Sent,
              Elapsed |-> IF ~r.Sent \/ ctxDone THEN 0
                          ELSE IF env.Slow THEN RequestTimeout(action)
                          ELSE WorkTime(action, env),
              Env |-> env, Ctx |-> ctxDone]
    ELSE IF action.Type = "exec"
    THEN LET r == ExecRun(e, action, env, ctxDone)
         IN  [Pre |-> st, St |-> st, Err |-> r.Err, Spawned |-> r.Started,
              Elapsed |-> IF ~r.Started THEN 0
                          ELSE IF env.Slow THEN AttemptTimeout(action)
                          ELSE WorkTime(action, env),
              Env |-> env, Ctx |-> ctxDone]
    ELSE LET r == CopyMoveRun(st, e, action, env)
         IN  [Pre |-> st, St |-> r.St, Err |-> r.Err, Spawned |-> FALSE,
              Elapsed |-> WorkTime(action, env), Env |-> env, Ctx |-> ctxDone]

----------------------------------------------------------------------------
(* templates of the actions of the model, and what an attempt may meet     *)

\* destination templates {dir}/x/{name} and {path} of copy and move
\* actions, x/{name} and {name} of rename actions
TplArchive == TokDir \o <<"/", "x", "/">> \o TokName
TplPath == TokPath
TplSub == <<"x", "/">> \o TokName
TplName == TokName

DestTemplates(type) ==
    CASE type \in {"copy", "move"} -> {TplArchive, TplPath}
      [] type = "rename" -> {TplSub, TplName}
      [] OTHER -> {<<>>}

\* url templates of webhook actions: h/{name}, h/% (an escape url.Parse
\* rejects) and {ext}, which expands to nothing for a file without extension
TplHook == <<"h", "/">> \o TokName
TplBadEscape == <<"h", "/", "%">>
TplExt == <<"{", "e", "x", "t", "}">>

URLTemplates(type) ==
    IF type = "webhook" THEN {TplHook, TplBadEscape, TplExt} ELSE {<<>>}

\* cmd templates of exec actions: `x {name}` and {ext}, which Validate
\* accepts and which expands to no field for a file without extension
TplRun == <<"x", " ">> \o TokName

CmdTemplates(type) ==
    IF type = "exec" THEN {TplRun, TplExt} ELSE {<<>>}

\* status codes of a response, on both sides of 300
StatusCodes == {200, 299, 300, 404}

\* the template the runner of the action expands
RunnerTemplate(action) ==
    CASE action.Type = "exec" -> action.Cmd
      [] action.Type = "webhook" -> action.URL
      [] OTHER -> action.Dest

\* what an attempt of the action for the event e may meet, the range of
\* Expand visiting the live keys in the order o: the calls that can be
\* reached and fail, for each type
Envs(e, action, o) ==
    IF action.Type = "exec"
    THEN \* the command has no field, or the program is not found, or the
         \* process is started
         IF Len(Fields(Expand(action.Cmd, TemplateContext(e), o))) = 0
         THEN {Env(FALSE, "none", TRUE, 0, FALSE, o)}
         ELSE {Env(FALSE, "Start", TRUE, 0, FALSE, o)}
              \cup {Env(FALSE, "none", ok, 0, slow, o) : ok \in BOOLEAN, slow \in BOOLEAN}
    ELSE IF action.Type = "webhook"
    THEN \* no request is made, or the request gets no answer in time, or
         \* client.Do fails, or it returns a response
         IF ~WebhookRun(e, action, Env(FALSE, "none", TRUE, 200, FALSE, o), FALSE).Sent
         THEN {Env(FALSE, "none", TRUE, 0, FALSE, o)}
         ELSE {Env(FALSE, "none", TRUE, 0, TRUE, o), Env(FALSE, "Do", TRUE, 0, FALSE, o)}
              \cup {Env(FALSE, "none", TRUE, status, FALSE, o) : status \in StatusCodes}
    ELSE IF action.Type = "copy"
    THEN {Env(FALSE, f, TRUE, 0, slow, o) :
            f \in {"none", "MkdirAll", "Open", "Create", "Copy"}, slow \in BOOLEAN}
    ELSE {Env(FALSE, f, TRUE, 0, slow, o) :
            f \in {"none", "MkdirAll"}, slow \in BOOLEAN}
         \cup {Env(TRUE, f, TRUE, 0, slow, o) :
            f \in {"none", "Open", "Create", "Copy", "Remove"}, slow \in BOOLEAN}

\* what one call of run() for the event e may meet
AttemptEnvs(e, action) ==
    UNION {Envs(e, action, o) :
              o \in RangeOrders(RunnerTemplate(action), TemplateContext(e))}

----------------------------------------------------------------------------
(* watcher: Worker.handleEvent                                              *)

\* the counter key w.cfg.Path + "." + action.Name
ActionKey(w, a) == <<w.Path, ".", a.Name>>

\* the debounce test with the comparison turned around
Debounced_Inverted(w, dm, e) ==
    /\ Duration(w.Debounce) > 0
    /\ e.Path \in DOMAIN dm
    /\ now - dm[e.Path] > Duration(w.Debounce)

\* handleEvent returns early: the path triggered less than Debounce ago
Debounced(w, dm, e) ==
    /\ Duration(w.Debounce) > 0
    /\ e.Path \in DOMAIN dm
    /\ now - dm[e.Path] < Duration(w.Debounce)

\* an event that is not suppressed leaving no timestamp
Touch_NoStamp(w, dm, e) ==
    IF e.Type = "delete" THEN MapDelete(dm, e.Path) ELSE dm

\* the debounce table after an event that is not suppressed
Touch(w, dm, e) ==
    LET dm1 == IF Duration(w.Debounce) > 0 THEN MapPut(dm, e.Path, now) ELSE dm
    IN  IF e.Type = "delete" THEN MapDelete(dm1, e.Path) ELSE dm1

----------------------------------------------------------------------------
(* Diff as a function of two arbitrary snapshots of one root               *)

DiffIdle == prev = <<>> /\ curr = <<>> /\ events = <<>> /\ dpc = "idle"

MatchIdle ==
    /\ ev = <<>> /\ watch = <<>> /\ raw = <<>> /\ loaded = FALSE /\ lerr = ""
    /\ selected = <<>> /\ mpc = "idle"

WorkerIdle ==
    /\ fs = <<>> /\ cfg = <<>> /\ dryRun = FALSE /\ wprev = <<>> /\ debounceMap = <<>>
    /\ tracker = <<>> /\ pending = <<>> /\ returned = <<>> /\ handled = <<>>
    /\ ticks = 0 /\ cancelled = FALSE /\ wpc = "idle" /\ hcall = <<>>
    /\ scanErr = FALSE /\ history = <<>>

\* no process holds the mutex
NoProc == -1

SupIdle ==
    /\ swatches = <<>> /\ sup = <<>> /\ sprocs = <<>> /\ smu = NoProc
    /\ strk = <<>> /\ scalls = <<>> /\ sctx = FALSE

TplIdle == tin = <<>> /\ tctx = <<>> /\ tout = <<>> /\ tkeys = {} /\ tpc = "idle"

ExecIdle ==
    /\ xst = <<>> /\ xev = <<>> /\ xaction = <<>> /\ xdry = FALSE /\ xerr = ""
    /\ xruns = <<>> /\ xtracker = <<>> /\ xcaller = "" /\ xctx = FALSE
    /\ xstart = FALSE /\ xpc = "idle"

InitDiff ==
    /\ prev \in Snapshots
    /\ curr \in Snapshots
    /\ events = <<>>
    /\ now = MaxMTime + 1
    /\ dpc = "call"
    /\ MatchIdle
    /\ WorkerIdle
    /\ ExecIdle
    /\ SupIdle
    /\ TplIdle

\* evs := Diff(dir, prev, curr)
CallDiff ==
    /\ dpc = "call"
    /\ events' \in Diff(Root, prev, curr)
    /\ dpc' = "done"
    /\ UNCHANGED <<prev, curr, now, matchVars, workerVars, execVars, supVars, tplVars>>

NextDiff == CallDiff

SpecDiff == InitDiff /\ [][NextDiff]_vars

----------------------------------------------------------------------------
(* Match as a function of one event and one watch                           *)

\* relative paths a.jpg, a.png, tmp/a.jpg and .h/a.jpg
RelJpg == <<"a", ".", "j", "p", "g">>
RelPng == <<"a", ".", "p", "n", "g">>
RelTmpJpg == <<"t", "m", "p", "/">> \o RelJpg
RelHiddenJpg == <<".", "h", "/">> \o RelJpg
RelPaths == {RelJpg, RelPng, RelTmpJpg, RelHiddenJpg}

\* patterns **/*.jpg and **/tmp/**
PatJpg == <<"*", "*", "/", "*", ".", "j", "p", "g">>
PatTmp == <<"*", "*", "/", "t", "m", "p", "/", "*", "*">>

\* sizes and ages below, at and above the bound 2 of the filters, files and
\* directories
MatchInfos == (1..3) \X (1..3) \X BOOLEAN

MatchEvents ==
    {Event(Root \o <<Sep>> \o r, r, <<>>, t,
           FileInfo(i[1], 1, i[3], 420), Duration(i[2])) :
        r \in RelPaths, t \in {"create", "delete", "move"}, i \in MatchInfos}

NoCondition == Condition(0, 0, 0, 0, FALSE, FALSE, NilBool)

AllEvents == <<"create", "modify", "delete", "move">>

\* an action as written in the configuration: an exec action with a cmd
\* and no filter but the given ones
RawAction(include, exclude, evs, cond) ==
    [Action("", "exec", include, exclude, evs, 0, 0, NilBool, cond) EXCEPT !.Cmd = TplRun]

\* the action without filters and the actions with one filter set (and one
\* with an include and an exclude pattern), and two actions Validate
\* rejects: one without cmd, one for files only and directories only
RawActions ==
    {RawAction(<<>>, <<>>, AllEvents, NoCondition),
     [RawAction(<<>>, <<>>, AllEvents, NoCondition) EXCEPT !.Cmd = <<>>],
     RawAction(<<>>, <<>>, AllEvents,
               [NoCondition EXCEPT !.OnlyFiles = TRUE, !.OnlyDirs = TRUE]),
     RawAction(<<>>, <<>>, <<>>, NoCondition),
     RawAction(<<>>, <<>>, <<"create", "modify">>, NoCondition),
     RawAction(<<PatJpg>>, <<>>, AllEvents, NoCondition),
     RawAction(<<>>, <<PatTmp>>, AllEvents, NoCondition),
     RawAction(<<PatJpg>>, <<PatTmp>>, AllEvents, NoCondition)}
    \cup {RawAction(<<>>, <<>>, AllEvents, c) : c \in
            {[NoCondition EXCEPT !.MinSizeBytes = 2],
             [NoCondition EXCEPT !.MaxSizeBytes = 2],
             [NoCondition EXCEPT !.MinAge = 2],
             [NoCondition EXCEPT !.MaxAge = 2],
             [NoCondition EXCEPT !.OnlyFiles = TRUE],
             [NoCondition EXCEPT !.OnlyDirs = TRUE],
             [NoCondition EXCEPT !.IgnoreHidden = BoolPtr(TRUE)],
             [NoCondition EXCEPT !.IgnoreHidden = BoolPtr(FALSE)]}}

ActionNames == <<"a1", "a2", "a3", "a4">>

\* the watches of Root with up to MaxActions actions, named by position
RawWatches ==
    {Watch(Root, 0, stop, [i \in 1..n |-> [as[i] EXCEPT !.Name = ActionNames[i]]]) :
        stop \in BOOLEAN, n \in 1..MaxActions, as \in [1..MaxActions -> RawActions]}

\* the watch raw is handed to Match as it is, or is the watch of a
\* configuration file still to be loaded
InitMatch ==
    /\ ev \in MatchEvents
    /\ loaded \in BOOLEAN
    /\ raw \in RawWatches
    /\ watch = IF loaded THEN <<>> ELSE raw
    /\ lerr = ""
    /\ selected = <<>>
    /\ mpc = IF loaded THEN "load" ELSE "call"
    /\ now = 0
    /\ DiffIdle
    /\ WorkerIdle
    /\ ExecIdle
    /\ SupIdle
    /\ TplIdle

\* config.Load returns the configuration: applyDefaults, then Validate,
\* which finds nothing wrong
LoadOK ==
    /\ mpc = "load"
    /\ \E w \in {applyDefaults(raw, Global(0, FALSE))} :
          /\ Validate(w) = ""
          /\ watch' = w
    /\ mpc' = "call"
    /\ UNCHANGED <<ev, raw, loaded, lerr, selected, now, diffVars, workerVars, execVars,
                   supVars, tplVars>>

\* config.Load returns the error of Validate, and its caller returns it:
\* no watcher is built and Match is not called
LoadError ==
    /\ mpc = "load"
    /\ \E w \in {applyDefaults(raw, Global(0, FALSE))} :
          /\ Validate(w) # ""
          /\ lerr' = Validate(w)
    /\ mpc' = "rejected"
    /\ UNCHANGED <<ev, watch, raw, loaded, selected, now, diffVars, workerVars, execVars,
                   supVars, tplVars>>

\* actions := m.Match(ev, w)
CallMatch ==
    /\ mpc = "call"
    /\ selected' = Match(ev, watch)
    /\ mpc' = "done"
    /\ UNCHANGED <<ev, watch, raw, loaded, lerr, now, diffVars, workerVars, execVars,
                   supVars, tplVars>>

NextMatch ==
    \/ LoadOK
    \/ LoadError
    \/ CallMatch

SpecMatch == InitMatch /\ [][NextMatch]_vars

----------------------------------------------------------------------------
(* Worker.Run: one worker polling Root                                      *)

\* the states of the watched directory: every file has the same size, time
\* and mode, but for /w/a, which has been written to or not
WorkerInfo == FileInfo(1, 1, FALSE, 420)
WorkerInfoWritten == FileInfo(2, 1, FALSE, 420)

WorkerSnapshots ==
    {s \in UNION {[D -> {WorkerInfo, WorkerInfoWritten}] : D \in SUBSET Paths} :
        \A p \in DOMAIN s : s[p] = WorkerInfoWritten => p = PathA}

\* the watch of the worker, as Load returns it: an exec action `x {name}`
\* on the default events (create, modify) with retries and a webhook
\* action to h/{name} on create and delete, so that a create selects both
\* and a move none
WorkerWatches ==
    {applyDefaults(
        Watch(Root, 0, FALSE,
              <<[Action("a1", "exec", <<>>, <<>>, <<>>, 0, MaxRetries, NilBool,
                        NoCondition) EXCEPT !.Cmd = TplRun],
                [Action("a2", "webhook", <<>>, <<>>, <<"create", "delete">>, 0, 0,
                        NilBool, NoCondition) EXCEPT !.URL = TplHook]>>),
        Global(0, FALSE))}

\* the time that passes in one step of the clock
ClockStep == 100 * Millisecond

\* no call of handleEvent is under way
NoCall == <<>>

\* a worker created by Supervisor.Run for a directory in one of the states
\* snaps, before its Run has done anything
WorkerStart(snaps) ==
    /\ fs \in snaps
    /\ cfg \in WorkerWatches
    /\ dryRun \in BOOLEAN
    /\ wprev = <<>>
    /\ debounceMap = <<>>
    /\ tracker = <<>>
    /\ pending = <<>>
    /\ returned = <<>>
    /\ handled = <<>>
    /\ ticks = 0
    /\ cancelled = FALSE
    /\ wpc = "start"
    /\ hcall = NoCall
    /\ scanErr = FALSE
    /\ history = <<>>
    /\ now = ClockStep
    /\ DiffIdle
    /\ MatchIdle
    /\ ExecIdle
    /\ SupIdle
    /\ TplIdle

Init == WorkerStart(WorkerSnapshots)

\* the initial scan succeeds: w.prev.data, _ = scn.Scan()
StartScanOK ==
    /\ wpc = "start"
    /\ wprev' = fs
    /\ scanErr' = FALSE
    /\ debounceMap' = EmptyMap
    /\ wpc' = "select"
    /\ UNCHANGED <<fs, cfg, dryRun, tracker, pending, returned, handled, ticks,
                   cancelled, hcall, history, now, diffVars, matchVars, execVars,
                   supVars, tplVars>>

\* the initial scan fails: Scan returns nil and the error is dropped
StartScanError ==
    /\ wpc = "start"
    /\ wprev' = EmptyMap
    /\ scanErr' = TRUE
    /\ debounceMap' = EmptyMap
    /\ wpc' = "select"
    /\ UNCHANGED <<fs, cfg, dryRun, tracker, pending, returned, handled, ticks,
                   cancelled, hcall, history, now, diffVars, matchVars, execVars,
                   supVars, tplVars>>

\* time passes, while the worker waits in its select for one of at most
\* bound ticks and anywhere in a cycle: between two events, between the
\* statements of handleEvent, which log, take the mutex of the Tracker and
\* read the clock anew, and while a runner runs; clock bounds the steps of
\* the clock
Advance(bound, clock) ==
    /\ \/ wpc = "select" /\ ticks < bound
       \/ wpc \in {"dispatch", "event", "action", "running", "returned"}
    /\ now < clock * ClockStep
    /\ now' = now + ClockStep
    /\ UNCHANGED <<workerVars, diffVars, matchVars, execVars, supVars, tplVars>>

\* a tick taken while the events of the cycle before are still dispatched
TickScanOK_Overlapping(snaps, bound) ==
    /\ wpc \in {"select", "dispatch"}
    /\ ticks < bound
    /\ ticks' = ticks + 1
    /\ fs' \in snaps
    /\ scanErr' = FALSE
    /\ returned' \in Diff(cfg.Path, wprev, fs')
    /\ wprev' = fs'
    /\ pending' = returned'
    /\ handled' = <<>>
    /\ wpc' = IF returned' = <<>> THEN "select" ELSE "dispatch"
    /\ UNCHANGED <<cfg, dryRun, debounceMap, tracker, cancelled, hcall, history, now,
                   diffVars, matchVars, execVars, supVars, tplVars>>

\* a tick whose scan succeeds and whose snapshot is not kept
TickScanOK_KeepPrev(snaps, bound) ==
    /\ wpc = "select"
    /\ ticks < bound
    /\ ticks' = ticks + 1
    /\ fs' \in snaps
    /\ scanErr' = FALSE
    /\ returned' \in Diff(cfg.Path, wprev, fs')
    /\ pending' = returned'
    /\ handled' = <<>>
    /\ wpc' = IF returned' = <<>> THEN "select" ELSE "dispatch"
    /\ UNCHANGED <<cfg, dryRun, wprev, debounceMap, tracker, cancelled, hcall, history,
                   now, diffVars, matchVars, execVars, supVars, tplVars>>

\* case <-ticker.C with a scan that succeeds and finds the directory as
\* fs', one of snaps, whatever was created, written, renamed or removed
\* since the last scan: diff, advance prev, start the loop over the events
TickScanOK(snaps, bound) ==
    /\ wpc = "select"
    /\ ticks < bound
    /\ ticks' = ticks + 1
    /\ fs' \in snaps
    /\ scanErr' = FALSE
    /\ returned' \in Diff(cfg.Path, wprev, fs')
    /\ wprev' = fs'
    /\ pending' = returned'
    /\ handled' = <<>>
    /\ wpc' = IF returned' = <<>> THEN "select" ELSE "dispatch"
    /\ UNCHANGED <<cfg, dryRun, debounceMap, tracker, cancelled, hcall, history, now,
                   diffVars, matchVars, execVars, supVars, tplVars>>

\* a failed scan of a tick taken as the new snapshot
TickScanError_DropPrev(bound) ==
    /\ wpc = "select"
    /\ ticks < bound
    /\ ticks' = ticks + 1
    /\ scanErr' = TRUE
    /\ wprev' = EmptyMap
    /\ UNCHANGED <<fs, cfg, dryRun, debounceMap, tracker, pending, returned,
                   handled, cancelled, wpc, hcall, history, now, diffVars, matchVars,
                   execVars, supVars, tplVars>>

\* case <-ticker.C with a scan that fails: log and continue
TickScanError(bound) ==
    /\ wpc = "select"
    /\ ticks < bound
    /\ ticks' = ticks + 1
    /\ scanErr' = TRUE
    /\ UNCHANGED <<fs, cfg, dryRun, wprev, debounceMap, tracker, pending, returned,
                   handled, cancelled, wpc, hcall, history, now, diffVars, matchVars,
                   execVars, supVars, tplVars>>

\* the event the loop `for _, ev := range events` hands to handleEvent next
NextEvent(evs) == Head(evs)

\* the names of the actions Match selects for the event e
SelectedNames(e) == {Match(e, cfg)[i].Name : i \in 1..Len(Match(e, cfg))}

\* a call of handleEvent as the history keeps it: the path and type of
\* the event, the time of the call, whether it went past the debounce and
\* the names of the actions Match selects for the event
Handled(e, accepted) ==
    [Path |-> e.Path, Type |-> e.Type, At |-> now, Accepted |-> accepted,
     Selected |-> SelectedNames(e)]

\* where Worker.Run stands once handleEvent has returned: in the loop over
\* the events when rest holds one more, back at its select otherwise
AfterEvent(rest) == IF rest = <<>> THEN "select" ELSE "dispatch"

\* the call of handleEvent for the event e as it is entered
Entered(e) == [Event |-> e, Sel |-> <<>>, I |-> 0, Results |-> <<>>, Start |-> FALSE]

\* handleEvent taking a suppressed event's path out of the previous
\* snapshot, so that the next diff reports the entry again
HandleEvent_Deferred ==
    /\ wpc = "dispatch"
    /\ LET e == NextEvent(pending)
           rest == Tail(pending)
       IN  /\ pending' = rest
           /\ IF Debounced(cfg, debounceMap, e)
              THEN /\ handled' = Append(handled, [Event |-> e, Accepted |-> FALSE])
                   /\ history' = Append(history, Handled(e, FALSE))
                   /\ wprev' = MapDelete(wprev, e.Path)
                   /\ wpc' = AfterEvent(rest)
                   /\ UNCHANGED <<debounceMap, hcall>>
              ELSE /\ handled' = Append(handled, [Event |-> e, Accepted |-> TRUE])
                   /\ history' = Append(history, Handled(e, TRUE))
                   /\ debounceMap' = Touch(cfg, debounceMap, e)
                   /\ wprev' = wprev
                   /\ hcall' = Entered(e)
                   /\ wpc' = "event"
    /\ UNCHANGED <<fs, cfg, dryRun, tracker, returned, ticks, cancelled, scanErr, now,
                   diffVars, matchVars, execVars, supVars, tplVars>>

\* w.handleEvent(ctx, ev) is called for the next event of the cycle: the
\* debounce test, which returns at once or stamps the path with the time
\* it is now, and the delete of the stamp of a delete event
HandleEvent ==
    /\ wpc = "dispatch"
    /\ LET e == NextEvent(pending)
           rest == Tail(pending)
       IN  /\ pending' = rest
           /\ IF Debounced(cfg, debounceMap, e)
              THEN /\ handled' = Append(handled, [Event |-> e, Accepted |-> FALSE])
                   /\ history' = Append(history, Handled(e, FALSE))
                   /\ wpc' = AfterEvent(rest)
                   /\ UNCHANGED <<debounceMap, hcall>>
              ELSE /\ handled' = Append(handled, [Event |-> e, Accepted |-> TRUE])
                   /\ history' = Append(history, Handled(e, TRUE))
                   /\ debounceMap' = Touch(cfg, debounceMap, e)
                   /\ hcall' = Entered(e)
                   /\ wpc' = "event"
    /\ UNCHANGED <<fs, cfg, dryRun, wprev, tracker, returned, ticks, cancelled, scanErr,
                   now, diffVars, matchVars, execVars, supVars, tplVars>>

\* handleEvent goes on: w.tracker.IncEvent, which reads the clock, and
\* w.matcher.Match; with no action selected it returns
CountEvent ==
    /\ wpc = "event"
    /\ tracker' = IncEvent(tracker, cfg.Path)
    /\ \E sel \in {Match(hcall.Event, cfg)} :
          IF sel = <<>>
          THEN hcall' = NoCall /\ wpc' = AfterEvent(pending)
          ELSE hcall' = [hcall EXCEPT !.Sel = sel, !.I = 1] /\ wpc' = "action"
    /\ UNCHANGED <<fs, cfg, dryRun, wprev, debounceMap, pending, returned, handled,
                   ticks, cancelled, scanErr, history, now, diffVars, matchVars,
                   execVars, supVars, tplVars>>

\* the action the loop of handleEvent over the selected actions is at
Current == hcall.Sel[hcall.I]

\* the loop over the selected actions goes on to the next one, or
\* handleEvent returns
NextAction ==
    IF hcall.I < Len(hcall.Sel)
    THEN /\ hcall' = [hcall EXCEPT !.I = @ + 1, !.Results = <<>>, !.Start = FALSE]
         /\ wpc' = "action"
    ELSE /\ hcall' = NoCall
         /\ wpc' = AfterEvent(pending)

\* the dry-run branch of the loop: the action is logged and counted as run
DryRunCount ==
    /\ wpc = "action"
    /\ dryRun
    /\ tracker' = IncAction(tracker, ActionKey(cfg, Current), TRUE, "")
    /\ NextAction
    /\ UNCHANGED <<fs, cfg, dryRun, wprev, debounceMap, pending, returned, handled,
                   ticks, cancelled, scanErr, history, now, diffVars, matchVars,
                   execVars, supVars, tplVars>>

\* w.executor.Execute is called, or is in its retry loop, and calls run():
\* ctxRun is derived from the ctx as it is now and handed to runner.Run
BeginRun ==
    /\ wpc = "action"
    /\ ~dryRun
    /\ ~Execute(dryRun, Current, hcall.Results).Returned
    /\ hcall' = [hcall EXCEPT !.Start = cancelled]
    /\ wpc' = "running"
    /\ UNCHANGED <<fs, cfg, dryRun, wprev, debounceMap, tracker, pending, returned,
                   handled, ticks, cancelled, scanErr, history, now, diffVars,
                   matchVars, execVars, supVars, tplVars>>

\* the results the call of run() under way may return: nil or an error,
\* as the runner of the action finds things
RunOutcomes ==
    {runAttempt(Store(EmptyMap, {}), hcall.Event, Current, env, hcall.Start).Err = "" :
        env \in AttemptEnvs(hcall.Event, Current)}

\* a failed call of run() that is retried counted as a run of the action
EndRun_PerAttempt ==
    /\ wpc = "running"
    /\ \E ok \in RunOutcomes :
          \E results \in {Append(hcall.Results, ok)} :
              /\ hcall' = [hcall EXCEPT !.Results = results, !.Start = FALSE]
              /\ IF Execute(dryRun, Current, results).Returned
                 THEN wpc' = "returned" /\ tracker' = tracker
                 ELSE /\ wpc' = "action"
                      /\ tracker' = IncAction(tracker, ActionKey(cfg, Current), FALSE,
                                              ErrNames[Len(results)])
    /\ UNCHANGED <<fs, cfg, dryRun, wprev, debounceMap, pending, returned,
                   handled, ticks, cancelled, scanErr, history, now, diffVars,
                   matchVars, execVars, supVars, tplVars>>

\* the call of run() returns; the retry loop then makes Execute return or
\* go on to the next attempt
EndRun ==
    /\ wpc = "running"
    /\ \E ok \in RunOutcomes :
          \E results \in {Append(hcall.Results, ok)} :
              /\ hcall' = [hcall EXCEPT !.Results = results, !.Start = FALSE]
              /\ wpc' = IF Execute(dryRun, Current, results).Returned
                        THEN "returned" ELSE "action"
    /\ UNCHANGED <<fs, cfg, dryRun, wprev, debounceMap, tracker, pending, returned,
                   handled, ticks, cancelled, scanErr, history, now, diffVars,
                   matchVars, execVars, supVars, tplVars>>

\* the loop over the selected actions left when Execute returned an error
RecordAction_StopOnError ==
    /\ wpc = "returned"
    /\ \E err \in {Execute(dryRun, Current, hcall.Results).Err} :
          /\ tracker' = IncAction(tracker, ActionKey(cfg, Current), err = "", err)
          /\ IF err # ""
             THEN hcall' = NoCall /\ wpc' = AfterEvent(pending)
             ELSE NextAction
    /\ UNCHANGED <<fs, cfg, dryRun, wprev, debounceMap, pending, returned, handled,
                   ticks, cancelled, scanErr, history, now, diffVars, matchVars,
                   execVars, supVars, tplVars>>

\* Execute has returned: the action is logged and counted as run, with
\* the error if there is one, and the loop goes on
RecordAction ==
    /\ wpc = "returned"
    /\ \E err \in {Execute(dryRun, Current, hcall.Results).Err} :
          tracker' = IncAction(tracker, ActionKey(cfg, Current), err = "", err)
    /\ NextAction
    /\ UNCHANGED <<fs, cfg, dryRun, wprev, debounceMap, pending, returned, handled,
                   ticks, cancelled, scanErr, history, now, diffVars, matchVars,
                   execVars, supVars, tplVars>>

\* the process-wide context is cancelled, wherever the worker is
Cancel ==
    /\ wpc \in {"select", "dispatch", "event", "action", "running", "returned"}
    /\ ~cancelled
    /\ cancelled' = TRUE
    /\ UNCHANGED <<fs, cfg, dryRun, wprev, debounceMap, tracker, pending, returned,
                   handled, ticks, wpc, hcall, scanErr, history, now, diffVars,
                   matchVars, execVars, supVars, tplVars>>

\* case <-ctx.Done(): return
WorkerReturn ==
    /\ wpc = "select"
    /\ cancelled
    /\ wpc' = "stopped"
    /\ UNCHANGED <<fs, cfg, dryRun, wprev, debounceMap, tracker, pending, returned,
                   handled, ticks, cancelled, hcall, scanErr, history, now, diffVars,
                   matchVars, execVars, supVars, tplVars>>

Next ==
    \/ StartScanOK
    \/ StartScanError
    \/ Advance(MaxTicks, MaxClock)
    \/ TickScanOK(WorkerSnapshots, MaxTicks)
    \/ TickScanError(MaxTicks)
    \/ HandleEvent
    \/ CountEvent
    \/ DryRunCount
    \/ BeginRun
    \/ EndRun
    \/ RecordAction
    \/ Cancel
    \/ WorkerReturn

Spec == Init /\ [][Next]_vars

----------------------------------------------------------------------------
(* Worker.Run over several ticks: one worker polling a directory that holds *)
(* at most the files /w/a and /w/b                                          *)

\* number of ticks and of clock steps of such a run
MaxPolls == 3
MaxPollClock == 3

\* the directory is empty, or holds /w/a, written to or not, or holds
\* both /w/a and /w/b
PollSnapshots ==
    {s \in WorkerSnapshots :
        DOMAIN s \subseteq {PathA} \/ (DOMAIN s = {PathA, PathB} /\ s[PathA] = WorkerInfo)}

InitPoll == WorkerStart(PollSnapshots)

NextPoll ==
    \/ StartScanOK
    \/ StartScanError
    \/ Advance(MaxPolls, MaxPollClock)
    \/ TickScanOK(PollSnapshots, MaxPolls)
    \/ TickScanError(MaxPolls)
    \/ HandleEvent
    \/ CountEvent
    \/ DryRunCount
    \/ BeginRun
    \/ EndRun
    \/ RecordAction
    \/ Cancel
    \/ WorkerReturn

SpecPoll == InitPoll /\ [][NextPoll]_vars

----------------------------------------------------------------------------
(* Executor.Execute: one action run for one event on a file store          *)

ActionTypes == {"exec", "copy", "move", "rename", "webhook"}

\* a short timeout_ms of the configuration
ShortTimeout == 5

\* the actions of a loaded configuration: timeout_ms unset or short,
\* retries up to MaxRetries, overwrite left to the global default
ExecActions ==
    {applyActionDefaults(
        [Action("a1", type, <<>>, <<>>, AllEvents, timeout, retries, NilBool,
                NoCondition) EXCEPT !.Cmd = cmd, !.Dest = dest, !.URL = url],
        defaultOverwrite) :
        type \in ActionTypes, cmd \in UNION {CmdTemplates(k) : k \in ActionTypes},
        dest \in UNION {DestTemplates(k) : k \in ActionTypes},
        url \in UNION {URLTemplates(k) : k \in ActionTypes},
        timeout \in {0, ShortTimeout}, retries \in 0..MaxRetries,
        defaultOverwrite \in BOOLEAN}

\* the event of the file /w/a
ExecEvent == Event(PathA, rel(Root, PathA), <<>>, "create", FileInfo(1, 1, FALSE, 420), 0)

\* the ancestors of a path that are directories when the path exists
RECURSIVE Ancestors(_)
Ancestors(p) ==
    IF Dir(p) = p \/ Dir(p) = <<".">> THEN {}
    ELSE {Dir(p)} \cup Ancestors(Dir(p))

\* a store where the source /w/a exists or not and the destination of the
\* action exists, with another content, or not
ExecStore(action, srcExists, destExists) ==
    LET dest == RunnerDest(ExecEvent, action,
                           Expand(action.Dest, TemplateContext(ExecEvent),
                                  [i \in 1..Len(Tokens) |-> i]))
        withSrc == IF srcExists THEN MapPut(EmptyMap, PathA, "A") ELSE EmptyMap
    IN  IF destExists /\ dest # <<>> /\ dest # PathA
        THEN Store(MapPut(withSrc, dest, "B"), Ancestors(PathA) \cup Ancestors(dest))
        ELSE Store(withSrc, Ancestors(PathA))

InitExec ==
    /\ xaction \in {a \in ExecActions : /\ a.Cmd \in CmdTemplates(a.Type)
                                        /\ a.Dest \in DestTemplates(a.Type)
                                        /\ a.URL \in URLTemplates(a.Type)}
    /\ xev = ExecEvent
    /\ \E srcExists \in BOOLEAN, destExists \in BOOLEAN :
          xst = ExecStore(xaction, srcExists, destExists)
    /\ xdry \in BOOLEAN
    /\ xcaller \in {"handleEvent", "simulateCmd"}
    /\ xctx = FALSE
    /\ xstart = FALSE
    /\ xerr = ""
    /\ xruns = <<>>
    /\ xtracker = EmptyMap
    /\ xpc = "call"
    /\ now = 0
    /\ DiffIdle
    /\ MatchIdle
    /\ WorkerIdle
    /\ SupIdle
    /\ TplIdle

\* whether each of the calls of run() in runs returned nil
RunsOK(runs) == [k \in 1..Len(runs) |-> runs[k].Err = ""]

\* the dry-run branch of the loop of handleEvent over the selected
\* actions, for the action xaction of the watch of Root: Execute is not
\* called and the action is counted as run
DryRunAction ==
    /\ xpc = "call"
    /\ xcaller = "handleEvent"
    /\ xdry
    /\ xtracker' = IncAction(xtracker, ActionKey([Path |-> Root], xaction), TRUE, "")
    /\ xpc' = "dispatched"
    /\ UNCHANGED <<xst, xev, xaction, xdry, xerr, xruns, xcaller, xctx, xstart, now,
                   diffVars, matchVars, workerVars, supVars, tplVars>>

\* Execute is called and returns before any call of run(): the DryRun
\* test, which simulateCmd reaches with DryRun set unless --execute is given
ExecuteDry ==
    /\ xpc = "call"
    /\ xcaller = "simulateCmd"
    /\ Execute(xdry, xaction, <<>>).Returned
    /\ xerr' = Execute(xdry, xaction, <<>>).Err
    /\ xpc' = "simulated"
    /\ UNCHANGED <<xst, xev, xaction, xdry, xruns, xtracker, xcaller, xctx, xstart, now,
                   diffVars, matchVars, workerVars, supVars, tplVars>>

\* Execute, called or in its retry loop, calls run(): ctxRun is derived
\* from the ctx as it is now and handed to runner.Run
BeginAttempt ==
    /\ xpc \in {"call", "execute"}
    /\ xpc = "call" => (xcaller = "simulateCmd" \/ ~xdry)
    /\ ~Execute(xdry, xaction, RunsOK(xruns)).Returned
    /\ xstart' = xctx
    /\ xpc' = "running"
    /\ UNCHANGED <<xst, xev, xaction, xdry, xerr, xruns, xtracker, xcaller, xctx, now,
                   diffVars, matchVars, workerVars, supVars, tplVars>>

\* the call of run() returns, after the time its work took; the retry
\* loop then makes Execute return or go on to the next attempt
EndAttempt ==
    /\ xpc = "running"
    /\ \E env \in AttemptEnvs(xev, xaction) :
          \E r \in {runAttempt(xst, xev, xaction, env, xstart)} :
              /\ xruns' = Append(xruns, r)
              /\ xst' = r.St
              /\ now' = now + r.Elapsed
    /\ \E x \in {Execute(xdry, xaction, RunsOK(xruns'))} :
          /\ xerr' = x.Err
          /\ xpc' = IF ~x.Returned THEN "execute"
                    ELSE IF xcaller = "simulateCmd" THEN "simulated"
                    ELSE "returned"
    /\ xstart' = FALSE
    /\ UNCHANGED <<xev, xaction, xdry, xtracker, xcaller, xctx, diffVars, matchVars,
                   workerVars, supVars, tplVars>>

\* Execute has returned to handleEvent, which counts the action as run,
\* with the error if there is one
CountAction ==
    /\ xpc = "returned"
    /\ xtracker' = IncAction(xtracker, ActionKey([Path |-> Root], xaction), xerr = "", xerr)
    /\ xpc' = "dispatched"
    /\ UNCHANGED <<xst, xev, xaction, xdry, xerr, xruns, xcaller, xctx, xstart, now,
                   diffVars, matchVars, workerVars, supVars, tplVars>>

\* SIGINT or SIGTERM while handleEvent dispatches the action: the ctx is
\* done (simulateCmd calls Execute with context.Background())
CancelExecute ==
    /\ xcaller = "handleEvent"
    /\ xpc \in {"call", "execute", "running", "returned"}
    /\ ~xctx
    /\ xctx' = TRUE
    /\ UNCHANGED <<xst, xev, xaction, xdry, xerr, xruns, xtracker, xcaller, xstart, xpc,
                   now, diffVars, matchVars, workerVars, supVars, tplVars>>

\* the time the calls of run() in runs took, in milliseconds
RECURSIVE TimeOf(_)
TimeOf(runs) == IF runs = <<>> THEN 0 ELSE runs[1].Elapsed + TimeOf(Tail(runs))

\* milliseconds that may pass outside the calls of run()
MaxExecWait == 1

\* time passes between two calls of run() and between the return of
\* Execute and the IncAction of handleEvent, which logs and takes the
\* mutex of the Tracker before it reads the clock
ExecWait ==
    /\ xpc \in {"execute", "returned"}
    /\ now - TimeOf(xruns) < MaxExecWait
    /\ now' = now + 1
    /\ UNCHANGED <<execVars, diffVars, matchVars, workerVars, supVars, tplVars>>

NextExec ==
    \/ ExecWait
    \/ DryRunAction
    \/ ExecuteDry
    \/ BeginAttempt
    \/ EndAttempt
    \/ CountAction
    \/ CancelExecute

SpecExec == InitExec /\ [][NextExec]_vars

----------------------------------------------------------------------------
(* Supervisor.Run: the workers of a configuration and a reader of the      *)
(* status, sharing one Tracker                                              *)

\* number of poll cycles in which a worker dispatches an event, and number
\* of Status calls of the reader
MaxCycles == 2
MaxReads == 1

\* cfg.Watches by the paths of the watches, /w and /v: Validate does not
\* reject two watches of the same directory
WatchLists == {<<Root>>, <<Root, Root>>, <<Root, <<"/", "v">>>>}

\* the process that calls Supervisor.Status
Reader == 0

\* a lock that excludes nobody
CanLock_Always(mu) == TRUE

\* t.mu.Lock() returns
CanLock(mu) == mu = NoProc

\* a wait that does not wait
WaitReturns_Always(wg) == TRUE

\* wg.Wait() returns
WaitReturns(wg) == wg = 0

\* a goroutine is described by its position, the Tracker method it is in
\* with its key and its argument ok, the statement of the method it is at,
\* the value it read, the cycles or calls it has completed and how many
\* times it was started
InitSup ==
    /\ swatches \in WatchLists
    /\ sup = [pc |-> "loop", next |-> 1, wg |-> 0]
    /\ sprocs = [p \in 0..Len(swatches) |->
                    [pc |-> IF p = Reader THEN "idle" ELSE "none", op |-> "",
                     key |-> <<>>, ok |-> TRUE, stmt |-> 0, reg |-> <<>>,
                     cycles |-> 0, started |-> 0]]
    /\ smu = NoProc
    /\ strk = EmptyMap
    /\ scalls = EmptyMap
    /\ sctx = FALSE
    /\ now = 0
    /\ DiffIdle
    /\ MatchIdle
    /\ WorkerIdle
    /\ ExecIdle
    /\ TplIdle

\* Supervisor.Run: the loop over cfg.Watches (wg.Add(1), go func), then
\* wg.Wait() and return
SupervisorRun ==
    /\ sup.pc = "loop"
    /\ \/ /\ sup.next <= Len(swatches)
          /\ sup' = [sup EXCEPT !.next = @ + 1, !.wg = @ + 1]
          /\ sprocs' = [sprocs EXCEPT ![sup.next].pc = "select",
                                      ![sup.next].started = @ + 1]
       \/ /\ sup.next > Len(swatches)
          /\ WaitReturns(sup.wg)
          /\ sup' = [sup EXCEPT !.pc = "returned"]
          /\ UNCHANGED sprocs
    /\ UNCHANGED <<swatches, smu, strk, scalls, sctx, now, diffVars, matchVars,
                   workerVars, execVars, tplVars>>

\* the goroutine of a watch without its deferred wg.Done()
WorkerGo_NoDone(i) ==
    /\ \/ /\ sprocs[i].pc = "select"
          /\ sprocs[i].cycles < MaxCycles
          /\ sprocs' = [sprocs EXCEPT ![i].pc = "lock", ![i].op = "IncEvent",
                                      ![i].key = swatches[i]]
       \/ /\ sprocs[i].pc = "select"
          /\ sctx
          /\ sprocs' = [sprocs EXCEPT ![i].pc = "left"]
       \/ /\ sprocs[i].pc = "left"
          /\ sprocs' = [sprocs EXCEPT ![i].pc = "done"]
    /\ UNCHANGED <<swatches, sup, smu, strk, scalls, sctx, now, diffVars, matchVars,
                   workerVars, execVars, tplVars>>

\* the goroutine of watch i: the select of Worker.Run, which takes a tick
\* and dispatches an event (IncEvent, then IncAction) or sees ctx.Done()
\* and returns, and the deferred wg.Done()
WorkerGo(i) ==
    /\ \/ /\ sprocs[i].pc = "select"
          /\ sprocs[i].cycles < MaxCycles
          /\ sprocs' = [sprocs EXCEPT ![i].pc = "lock", ![i].op = "IncEvent",
                                      ![i].key = swatches[i]]
          /\ UNCHANGED sup
       \/ /\ sprocs[i].pc = "select"
          /\ sctx
          /\ sprocs' = [sprocs EXCEPT ![i].pc = "left"]
          /\ UNCHANGED sup
       \/ /\ sprocs[i].pc = "left"
          /\ sprocs' = [sprocs EXCEPT ![i].pc = "done"]
          /\ sup' = [sup EXCEPT !.wg = @ - 1]
    /\ UNCHANGED <<swatches, smu, strk, scalls, sctx, now, diffVars, matchVars,
                   workerVars, execVars, tplVars>>

\* a call of Supervisor.Status begins
StatusCall ==
    /\ sprocs[Reader].pc = "idle"
    /\ sprocs[Reader].cycles < MaxReads
    /\ sprocs' = [sprocs EXCEPT ![Reader].pc = "lock", ![Reader].op = "Snapshot"]
    /\ UNCHANGED <<swatches, sup, smu, strk, scalls, sctx, now, diffVars, matchVars,
                   workerVars, execVars, tplVars>>

\* a statement c.F++ and an assignment c.F = v of a Tracker method
Inc(field) == [Kind |-> "inc", Field |-> field]
Set(field) == [Kind |-> "set", Field |-> field]

\* the statements of IncEvent after ensure
IncEventBody == <<Inc("EventsSeen"), Set("LastRun")>>

\* IncAction counting a run only when it succeeded
IncActionBody_ErrorNotRun(ok) ==
    IF ok THEN <<Inc("ActionsRun"), Inc("ActionsOK"), Set("LastRun")>>
    ELSE <<Inc("ActionsError"), Set("LastError"), Set("LastRun")>>

\* the statements of IncAction after ensure
IncActionBody(ok) ==
    <<Inc("ActionsRun")>>
        \o (IF ok THEN <<Inc("ActionsOK")>>
            ELSE <<Inc("ActionsError"), Set("LastError")>>)
        \o <<Set("LastRun")>>

\* the statements of the method the process is in
Body(proc) ==
    IF proc.op = "IncEvent" THEN IncEventBody
    ELSE IF proc.op = "IncAction" THEN IncActionBody(proc.ok)
    ELSE <<>>

\* the process once the statement it was at is done: at the next one, or
\* at the deferred Unlock
AfterStmt(proc) ==
    [proc EXCEPT !.stmt = @ + 1, !.reg = <<>>,
                 !.pc = IF proc.stmt = Len(Body(proc)) THEN "unlock" ELSE "stmt"]

\* the process p after the Tracker method it was in has returned: a worker
\* goes on to IncAction or back to its select, the reader keeps the map
\* Snapshot returned
Returned(p, proc) ==
    IF proc.op = "IncEvent"
    THEN [proc EXCEPT !.pc = "lock", !.op = "IncAction",
                      !.key = ActionKey([Path |-> swatches[p]], [Name |-> "a1"]),
                      !.ok = TRUE, !.stmt = 0, !.reg = <<>>]
    ELSE [proc EXCEPT !.pc = IF p = Reader THEN "idle" ELSE "select", !.op = "",
                      !.key = <<>>, !.ok = TRUE, !.stmt = 0,
                      !.reg = IF p = Reader THEN @ ELSE <<>>,
                      !.cycles = @ + 1]

\* the steps of IncEvent, IncAction and Snapshot in process p: t.mu.Lock(),
\* ensure or the copy of the map, the statements of the body one by one,
\* c.F++ being a read of the field and a write of the value read plus one,
\* and the deferred t.mu.Unlock() with the return.  The argument ok of
\* IncAction is drawn where the body first reads it, at `if ok`
TrackerCall(p) ==
    /\ \/ /\ sprocs[p].pc = "lock"
          /\ CanLock(smu)
          /\ smu' = p
          /\ sprocs' = [sprocs EXCEPT
                ![p].pc = IF sprocs[p].op = "Snapshot" THEN "copy" ELSE "ensure"]
          /\ UNCHANGED <<strk, scalls>>
       \/ /\ sprocs[p].pc = "copy"
          /\ sprocs' = [sprocs EXCEPT ![p].reg = strk, ![p].pc = "unlock"]
          /\ UNCHANGED <<smu, strk, scalls>>
       \/ /\ sprocs[p].pc = "ensure"
          /\ strk' = ensure(strk, sprocs[p].key)
          /\ sprocs' = [sprocs EXCEPT ![p].pc = "stmt", ![p].stmt = 1]
          /\ UNCHANGED <<smu, scalls>>
       \/ /\ sprocs[p].pc = "stmt"
          /\ \E ok \in IF sprocs[p].op = "IncAction" /\ sprocs[p].stmt = 2
                         THEN BOOLEAN ELSE {sprocs[p].ok} :
             \E proc \in {[sprocs[p] EXCEPT !.ok = ok]} :
             \E s \in {Body(proc)[proc.stmt]} :
                IF s.Kind = "inc"
                THEN /\ sprocs' = [sprocs EXCEPT
                            ![p] = [proc EXCEPT !.reg = strk[proc.key][s.Field],
                                                !.pc = "store"]]
                     /\ UNCHANGED strk
                ELSE /\ strk' = [strk EXCEPT ![proc.key][s.Field] =
                                    IF s.Field = "LastRun" THEN now ELSE "failed"]
                     /\ sprocs' = [sprocs EXCEPT ![p] = AfterStmt(proc)]
          /\ UNCHANGED <<smu, scalls>>
       \/ /\ sprocs[p].pc = "store"
          /\ strk' = [strk EXCEPT
                ![sprocs[p].key][Body(sprocs[p])[sprocs[p].stmt].Field] = sprocs[p].reg + 1]
          /\ sprocs' = [sprocs EXCEPT ![p] = AfterStmt(sprocs[p])]
          /\ UNCHANGED <<smu, scalls>>
       \/ /\ sprocs[p].pc = "unlock"
          /\ smu' = NoProc
          /\ scalls' = LET c == <<sprocs[p].op, sprocs[p].key>>
                       IN  MapPut(scalls, c, IF c \in DOMAIN scalls THEN scalls[c] + 1 ELSE 1)
          /\ sprocs' = [sprocs EXCEPT ![p] = Returned(p, sprocs[p])]
          /\ UNCHANGED strk
    /\ UNCHANGED <<swatches, sup, sctx, now, diffVars, matchVars, workerVars, execVars,
                   tplVars>>

\* SIGINT or SIGTERM: the ctx of Supervisor.Run is cancelled
SupCancel ==
    /\ ~sctx
    /\ sctx' = TRUE
    /\ UNCHANGED <<swatches, sup, sprocs, smu, strk, scalls, now, diffVars, matchVars,
                   workerVars, execVars, tplVars>>

\* steps of the clock the Tracker reads in IncEvent and IncAction
MaxSupClock == 1

\* time passes, whatever the goroutines are doing
SupTick ==
    /\ now < MaxSupClock
    /\ now' = now + 1
    /\ UNCHANGED <<supVars, diffVars, matchVars, workerVars, execVars, tplVars>>

NextSup ==
    \/ SupTick
    \/ SupervisorRun
    \/ \E i \in 1..Len(swatches) : WorkerGo(i)
    \/ StatusCall
    \/ \E p \in 0..Len(swatches) : TrackerCall(p)
    \/ SupCancel

SpecSup == InitSup /\ [][NextSup]_vars

\* what the Go runtime gives the goroutines.  Supervisor.Run and a
\* goroutine inside a Tracker method go on when they can go on for good
\* (the others ask for the mutex a bounded number of times).  A select
\* whose ctx.Done() case is ready again and again takes it in the end, the
\* choice among ready cases being uniformly random; the deferred wg.Done()
\* then runs.  Only this much of it is assumed: while some worker can
\* again and again leave through ctx.Done(), some worker does.  No tick
\* and no Status call has to come.
SupFairness ==
    /\ WF_vars(SupervisorRun)
    /\ \A p \in {Reader} \cup UNION {DOMAIN w : w \in WatchLists} :
          WF_vars(p \in DOMAIN sprocs /\ TrackerCall(p))
    /\ SF_vars(\E i \in DOMAIN swatches :
                  WorkerGo(i) /\ sprocs'[i].pc \in {"left", "done"})

SpecSupFair == SpecSup /\ SupFairness

----------------------------------------------------------------------------
(* template.Expand as a function of a template and a context              *)

\* the context BuildTemplateContext makes for an event of a file of Root
\* with the given name, and the templates of the table: names are a,
\* {size}, {ext}, {event}, {path} and a.{size}; templates are {name},
\* {path}, {stem}{ext}, {size}, {name}-{size}, {path}{name},
\* {relpath}{name}, {path}{relpath} and x, which has no token
ExpandNames ==
    {<<"a">>, Tokens[4], Tokens[9], Tokens[3], TokPath, <<"a", ".">> \o Tokens[4]}

ExpandTemplates ==
    {TokName, TokPath, Tokens[8] \o Tokens[9], Tokens[4],
     TokName \o <<"-">> \o Tokens[4], TokPath \o TokName, Tokens[2] \o TokName,
     TokPath \o Tokens[2], <<"x">>}

InitExpand ==
    /\ \E name \in ExpandNames, type \in {"create", "modify"}, size \in 1..MaxSize :
          tctx = TemplateContext(Event(Root \o <<Sep>> \o name, name, <<>>, type,
                                       FileInfo(size, 1, FALSE, 420), 0))
    /\ tin \in ExpandTemplates
    /\ tout = <<>>
    /\ tkeys = {}
    /\ tpc = "call"
    /\ now = 0
    /\ DiffIdle
    /\ MatchIdle
    /\ WorkerIdle
    /\ ExecIdle
    /\ SupIdle

\* Expand is entered: repl is built and out := in
CallExpand ==
    /\ tpc = "call"
    /\ tout' = tin
    /\ tkeys' = 1..Len(Tokens)
    /\ tpc' = "range"
    /\ UNCHANGED <<tin, tctx, now, diffVars, matchVars, workerVars, execVars, supVars>>

\* one iteration of `for k, v := range repl`: the range hands out any key
\* it has not visited yet, and out = strings.ReplaceAll(out, k, v)
RangeStep ==
    /\ tpc = "range"
    /\ \E k \in tkeys :
          /\ tout' = ReplaceAll(tout, Tokens[k], Repl(tctx)[k])
          /\ tkeys' = tkeys \ {k}
    /\ UNCHANGED <<tin, tctx, tpc, now, diffVars, matchVars, workerVars, execVars,
                   supVars>>

\* the range is over: return out
ReturnExpand ==
    /\ tpc = "range"
    /\ tkeys = {}
    /\ tpc' = "done"
    /\ UNCHANGED <<tin, tctx, tout, tkeys, now, diffVars, matchVars, workerVars,
                   execVars, supVars>>

NextExpand == CallExpand \/ RangeStep \/ ReturnExpand

SpecExpand == InitExpand /\ [][NextExpand]_vars

----------------------------------------------------------------------------
(* Properties of Diff                                                       *)

\* indices of the events of evs of one kind
OfType(evs, type) == {i \in 1..Len(evs) : evs[i].Type = type}

\* same (size, modification time, mode)
SameSig(i, j) == i.Size = j.Size /\ i.ModTime = j.ModTime /\ i.Mode = j.Mode

\* prv with the record of p moved to the path q
Renamed(prv, p, q) ==
    [x \in ((DOMAIN prv) \ {p}) \cup {q} |-> IF x = q THEN prv[p] ELSE prv[x]]

OnlyPrev == (DOMAIN prev) \ (DOMAIN curr)
OnlyCurr == (DOMAIN curr) \ (DOMAIN prev)
InBoth == (DOMAIN prev) \cap (DOMAIN curr)

\* C1 (as claimed): when curr is prev with the record of p renamed to a new
\* path q, Diff returns exactly one event, the move of p to q.
C1_RenameIsOneMove ==
    dpc = "done" =>
        \A p \in DOMAIN prev : \A q \in Paths \ DOMAIN prev :
            curr = Renamed(prev, p, q) =>
                /\ Len(events) = 1
                /\ events[1].Type = "move"
                /\ events[1].PrevPath = p
                /\ events[1].Path = q

\* C2 (as claimed): every move event goes from a path of prev that is absent
\* from curr to a different path of curr that is absent from prev, and the
\* two records have the same (size, modification time, mode).
C2_MoveFromDeleteCandidate ==
    dpc = "done" =>
        \A i \in OfType(events, "move") :
            /\ events[i].PrevPath # events[i].Path
            /\ events[i].PrevPath \in OnlyPrev
            /\ events[i].Path \in OnlyCurr
            /\ SameSig(prev[events[i].PrevPath], curr[events[i].Path])

\* C3 (as claimed): a path that is only in curr and whose signature no path
\* of prev absent from curr has, is reported as a create and not as a move.
C3_CreateWithoutCandidate ==
    dpc = "done" =>
        \A q \in OnlyCurr :
            (\A p \in OnlyPrev : ~SameSig(prev[p], curr[q])) =>
                /\ \E i \in OfType(events, "create") : events[i].Path = q
                /\ \A i \in OfType(events, "move") : events[i].Path # q

\* C4 (as claimed): no two move events of one result have the same PrevPath.
C4_PrevPathConsumedOnce ==
    dpc = "done" =>
        \A i, j \in OfType(events, "move") :
            events[i].PrevPath = events[j].PrevPath => i = j

DeletesOf(p) == {i \in OfType(events, "delete") : events[i].Path = p}
MovesFrom(p) == {i \in OfType(events, "move") : events[i].PrevPath = p}

\* C5: every path of prev that is absent from curr has either exactly one
\* delete event or a move event from it, never both and never neither, and
\* no path still in curr has a delete event.
C5_DeleteOrMove ==
    dpc = "done" =>
        /\ \A p \in OnlyPrev :
              \/ Cardinality(DeletesOf(p)) = 1 /\ MovesFrom(p) = {}
              \/ DeletesOf(p) = {} /\ MovesFrom(p) # {}
        /\ \A p \in DOMAIN curr : DeletesOf(p) = {}

\* C5 witness: one vanished path is reported deleted, another one moved
C5_Witness ==
    /\ dpc = "done"
    /\ \E p, q \in OnlyPrev : DeletesOf(p) # {} /\ MovesFrom(q) # {}

EventsAt(p) == {i \in 1..Len(events) : events[i].Path = p}

\* C6: a path in both snapshots has exactly one modify event (and no other
\* event at that path) when size, modification time or mode differ, and no
\* event at that path when all three are equal.
C6_ModifyIffChanged ==
    dpc = "done" =>
        \A p \in InBoth :
            IF SameSig(prev[p], curr[p])
            THEN EventsAt(p) = {}
            ELSE /\ Cardinality(EventsAt(p)) = 1
                 /\ \A i \in EventsAt(p) : events[i].Type = "modify"

\* C6 witness: a path kept unchanged next to paths whose mode alone and
\* whose size alone changed
C6_Witness ==
    /\ dpc = "done"
    /\ \E p, q, r \in InBoth :
          /\ SameSig(prev[p], curr[p])
          /\ prev[q].Mode # curr[q].Mode /\ prev[q].Size = curr[q].Size
          /\ prev[r].Size # curr[r].Size /\ prev[r].Mode = curr[r].Mode
          /\ EventsAt(q) # {} /\ EventsAt(r) # {}

\* the two snapshots have the same paths with the same size, time and mode
Unchanged ==
    /\ DOMAIN prev = DOMAIN curr
    /\ \A p \in DOMAIN prev : SameSig(prev[p], curr[p])

\* C7: diffing a snapshot against one with the same paths and the same
\* size, modification time and mode for each path returns no event.
C7_NoChangeNoEvent ==
    (dpc = "done" /\ Unchanged) => events = <<>>

\* C7 witness: Diff has run on two equal snapshots of three entries
C7_Witness ==
    dpc = "done" /\ Unchanged /\ DOMAIN prev = Paths

\* the events of evs without their order: (kind, path, previous path)
EventSet(evs) == {<<evs[i].Type, evs[i].Path, evs[i].PrevPath>> : i \in 1..Len(evs)}

\* C8 (as claimed): for fixed prev and curr every run of Diff returns the
\* same set of events, whatever the iteration order of the maps.
C8_OrderIndependent ==
    dpc = "done" =>
        \A evs \in Diff(Root, prev, curr) : EventSet(evs) = EventSet(events)

\* a path that is only in curr has a signature that several paths of prev share
Ambiguous ==
    \E q \in OnlyCurr : \E p1, p2 \in DOMAIN prev :
        p1 # p2 /\ SameSig(prev[p1], curr[q]) /\ SameSig(prev[p2], curr[q])

\* C8 (amended): every run of Diff returns the same set of events unless a
\* path present only in curr has a signature shared by several paths of prev.
C8_OrderIndependentUnlessShared ==
    (dpc = "done" /\ ~Ambiguous) =>
        \A evs \in Diff(Root, prev, curr) : EventSet(evs) = EventSet(events)

\* C8 witness: a create reported where two paths of prev share a signature
\* that the new path does not have
C8_Witness ==
    /\ dpc = "done"
    /\ ~Ambiguous
    /\ \E p1, p2 \in DOMAIN prev : p1 # p2 /\ SameSig(prev[p1], prev[p2])
    /\ OfType(events, "create") # {}

----------------------------------------------------------------------------
(* Properties of Match                                                      *)

\* some component of the relative path starts with a dot
HiddenPath(relPath) ==
    \E i \in 1..Len(relPath) : relPath[i] = "." /\ (i = 1 \/ relPath[i - 1] = Sep)

\* the action a passes every filter for the event e; a bound is set when it
\* is not zero, the hidden-path rule applies when ignore_hidden is true
PassesFilters(e, a) ==
    LET c == a.Condition
    IN  /\ \E i \in 1..Len(a.Events) : a.Events[i] = e.Type
        /\ a.Include = <<>> \/ \E i \in 1..Len(a.Include) : PathMatch(a.Include[i], e.RelPath)
        /\ \A i \in 1..Len(a.Exclude) : ~PathMatch(a.Exclude[i], e.RelPath)
        /\ c.MinSizeBytes # 0 => e.Info.Size >= c.MinSizeBytes
        /\ c.MaxSizeBytes # 0 => e.Info.Size <= c.MaxSizeBytes
        /\ c.MinAge # 0 => e.Age >= c.MinAge * Millisecond
        /\ c.MaxAge # 0 => e.Age <= c.MaxAge * Millisecond
        /\ c.OnlyFiles => ~e.Info.IsDir
        /\ c.OnlyDirs => e.Info.IsDir
        /\ c.IgnoreHidden = BoolPtr(TRUE) => ~HiddenPath(e.RelPath)

\* the actions of the watch that pass every filter, in configured order
PassingActions ==
    LET Test(a) == PassesFilters(ev, a)
    IN  SelectSeq(watch.Actions, Test)

\* C10: with stop-on-first-match off, Match returns exactly the actions of
\* the watch that pass all filters, in configured order, none twice.
C10_MatchReturnsAllPassing ==
    (mpc = "done" /\ ~watch.StopOnFirstMatch) =>
        /\ selected = PassingActions
        /\ \A i, j \in 1..Len(selected) : selected[i].Name = selected[j].Name => i = j

\* C10 witness: of two actions with a filter each, the first is skipped and
\* the second, whose size bound the event meets exactly, is returned
C10_Witness ==
    /\ mpc = "done"
    /\ ~watch.StopOnFirstMatch
    /\ Len(watch.Actions) = 2
    /\ watch.Actions[1].Condition.OnlyDirs
    /\ watch.Actions[2].Condition.MaxSizeBytes = ev.Info.Size
    /\ selected = <<watch.Actions[2]>>

\* C11: with stop-on-first-match on, Match returns only the first action in
\* configured order that passes all filters, and nothing when none passes.
C11_StopOnFirstMatch ==
    (mpc = "done" /\ watch.StopOnFirstMatch) =>
        selected = IF PassingActions = <<>> THEN <<>> ELSE <<Head(PassingActions)>>

\* C11 witness: both actions of a stop-on-first-match watch pass and only
\* the first is returned
C11_Witness ==
    /\ mpc = "done"
    /\ watch.StopOnFirstMatch
    /\ Len(PassingActions) = 2
    /\ selected = <<watch.Actions[1]>>

\* the relative path has a segment named tmp
HasTmpSegment(relPath) ==
    \E i \in 1..Len(relPath) :
        /\ i + 2 <= Len(relPath)
        /\ SubSeq(relPath, i, i + 2) = <<"t", "m", "p">>
        /\ (i = 1 \/ relPath[i - 1] = "/")
        /\ (i + 2 = Len(relPath) \/ relPath[i + 3] = "/")

\* C12: no returned action has an exclude pattern that the relative path
\* of the event matches; an action excluding **/tmp/** is never returned
\* for a path with a tmp segment, include patterns notwithstanding.
C12_ExcludeWins ==
    mpc = "done" =>
        \A i \in 1..Len(selected) :
            /\ \A k \in 1..Len(selected[i].Exclude) :
                   ~PathMatch(selected[i].Exclude[k], ev.RelPath)
            /\ (PatTmp \in Range(selected[i].Exclude)) => ~HasTmpSegment(ev.RelPath)

\* C12 witness: the first action includes **/*.jpg and excludes **/tmp/**,
\* the event is for tmp/a.jpg and passes every other filter of it; the
\* action is left out while the second action, without patterns, is returned
C12_Witness ==
    /\ mpc = "done"
    /\ Len(watch.Actions) = 2
    /\ ev.RelPath = RelTmpJpg
    /\ watch.Actions[1].Include = <<PatJpg>>
    /\ watch.Actions[1].Exclude = <<PatTmp>>
    /\ PassesFilters(ev, [watch.Actions[1] EXCEPT !.Exclude = <<>>])
    /\ selected = <<watch.Actions[2]>>

\* C13: in a loaded configuration an action whose ignore_hidden is unset or
\* true is never returned for an event whose relative path has a component
\* starting with a dot.
C13_HiddenExcludedByDefault ==
    (mpc = "done" /\ loaded /\ HiddenPath(ev.RelPath)) =>
        \A i \in 1..Len(raw.Actions) :
            raw.Actions[i].Condition.IgnoreHidden \in {NilBool, BoolPtr(TRUE)} =>
                \A k \in 1..Len(selected) : selected[k].Name # raw.Actions[i].Name

\* C13 witness: for a hidden path, the action that leaves ignore_hidden
\* unset is left out and the action that sets it to false is returned
C13_Witness ==
    /\ mpc = "done"
    /\ loaded
    /\ HiddenPath(ev.RelPath)
    /\ Len(raw.Actions) = 2
    /\ raw.Actions[1].Condition = NoCondition
    /\ raw.Actions[2].Condition.IgnoreHidden = BoolPtr(FALSE)
    /\ eventAllowed(ev, watch.Actions[1])
    /\ selected = <<watch.Actions[2]>>

----------------------------------------------------------------------------
(* Properties of Execute and the runners                                    *)

\* Execute or the dry-run branch of handleEvent has returned
ExecDone == xpc \in {"dispatched", "simulated"}

\* the counter of the action in the caller's tracker
ActionCounter == xtracker[ActionKey([Path |-> Root], xaction)]

\* C14: in dry-run mode a dispatch calls no runner and leaves the file
\* system as it is (no file, no directory created), for every action type;
\* it returns no error, and the worker counts it as one successful run.
C14_DryRunRunsNothing ==
    [][xdry =>
          /\ xruns' = <<>>
          /\ xst' = xst
          /\ xerr' = ""
          /\ xpc' = "dispatched" =>
                /\ DOMAIN xtracker' = {ActionKey([Path |-> Root], xaction)}
                /\ ActionCounter'.ActionsRun = 1
                /\ ActionCounter'.ActionsOK = 1
                /\ ActionCounter'.ActionsError = 0
                /\ ActionCounter'.LastError = ""]_vars

\* C14 witness: a copy to {dir}/x/{name}, whose source exists and whose
\* destination does not, was dispatched in dry-run mode: /w/x is not there
C14_Witness ==
    /\ xpc = "dispatched"
    /\ xdry
    /\ xaction.Type = "copy"
    /\ xaction.Dest = TplArchive
    /\ PathA \in DOMAIN xst.Files
    /\ (Root \o <<"/", "x">>) \notin xst.Dirs
    /\ ActionCounter.ActionsOK = 1

\* the calls of the runner that returned an error
FailedRuns == {k \in 1..Len(xruns) : xruns[k].Err # ""}

\* C15: outside dry-run, a runner that fails N times and then succeeds makes
\* Execute return nil after N + 1 attempts when N <= Retries; a runner that
\* fails on each of the Retries + 1 attempts makes it return an error.
C15_RetryUntilSuccess ==
    (ExecDone /\ ~xdry) =>
        LET n == Len(xruns)
        IN  /\ n >= 1
            /\ n <= xaction.Retries + 1
            /\ \A k \in 1..(n - 1) : k \in FailedRuns
            /\ n \notin FailedRuns => xerr = ""
            /\ n \in FailedRuns => (xerr # "" /\ n = xaction.Retries + 1)

\* C15 witness: with one retry, the first attempt failed, the second
\* succeeded and Execute returned nil
C15_Witness ==
    /\ ExecDone
    /\ ~xdry
    /\ xaction.Retries = 1
    /\ Len(xruns) = 2
    /\ FailedRuns = {1}
    /\ xerr = ""

\* C16: when every attempt fails, Execute returns the error of the last
\* attempt made, and the worker records that error.
C16_LastErrorReturned ==
    (ExecDone /\ ~xdry /\ FailedRuns = 1..Len(xruns)) =>
        /\ xerr = ErrNames[Len(xruns)]
        /\ xpc = "dispatched" => ActionCounter.LastError = ErrNames[Len(xruns)]

\* C16 witness: two attempts failed for different reasons and the error
\* returned is that of the second
C16_Witness ==
    /\ xpc = "dispatched"
    /\ ~xdry
    /\ Len(xruns) = 2
    /\ FailedRuns = {1, 2}
    /\ xruns[1].Err # xruns[2].Err
    /\ xerr = ErrNames[2]

\* C17: every attempt, of every action type, ends within the timeout of the
\* action, and an attempt whose work would take longer fails.
C17_AttemptBoundedByTimeout ==
    ExecDone =>
        \A k \in 1..Len(xruns) :
            /\ xruns[k].Elapsed <= AttemptTimeout(xaction)
            /\ xruns[k].Env.Slow => k \in FailedRuns

\* the destination of the action for the file /w/a
DestPath ==
    CASE xaction.Dest = TplArchive /\ xaction.Type \in {"copy", "move"} -> Root \o <<"/", "x", "/", "a">>
      [] xaction.Dest = TplPath /\ xaction.Type \in {"copy", "move"} -> PathA
      [] xaction.Dest = TplSub /\ xaction.Type = "rename" -> Root \o <<"/", "x", "/", "a">>
      [] xaction.Dest = TplName /\ xaction.Type = "rename" -> PathA
      [] OTHER -> <<>>

FileAction == xaction.Type \in {"copy", "move", "rename"}

\* C18: a copy, move or rename whose destination exists while overwrite is
\* false fails on every attempt and changes nothing in the file system: the
\* destination keeps its content and the source stays.
C18_NoOverwrite ==
    (xruns # <<>> /\ FileAction /\ xaction.Overwrite = BoolPtr(FALSE)
        /\ Exists(xruns[1].Pre, DestPath)) =>
        /\ FailedRuns = 1..Len(xruns)
        /\ xst = xruns[1].Pre
        /\ ExecDone => (xerr # "" /\ Len(xruns) = xaction.Retries + 1)

\* C18 witness: a move onto an existing file with overwrite false has
\* failed; the destination holds its old content and the source is there
C18_Witness ==
    /\ ExecDone
    /\ ~xdry
    /\ xaction.Type = "move"
    /\ xaction.Overwrite = BoolPtr(FALSE)
    /\ xaction.Dest = TplArchive
    /\ xerr # ""
    /\ xruns # <<>>
    /\ \A k \in 1..Len(xruns) : xruns[k].Err = "dest exists"
    /\ DestPath \in DOMAIN xst.Files
    /\ xst.Files[DestPath] = "B"
    /\ PathA \in DOMAIN xst.Files
    /\ xst.Files[PathA] = "A"

\* in the k-th attempt the rename failed, the copy was made and the source
\* could not be removed
CopiedNotRemoved(k) ==
    LET r == xruns[k]
    IN  /\ xaction.Type \in {"move", "rename"}
        /\ r.Env.Rename
        /\ r.Env.Fail = "Remove"
        /\ PathA \in DOMAIN r.Pre.Files
        /\ xaction.Overwrite = BoolPtr(TRUE) \/ ~Exists(r.Pre, DestPath)

\* C19: a move attempt whose rename fails, whose copy succeeds and whose
\* removal of the source fails is a failed attempt, after which the source
\* and the copied destination both exist.
C19_FallbackLeavesBoth ==
    ExecDone =>
        \A k \in 1..Len(xruns) :
            CopiedNotRemoved(k) =>
                /\ k \in FailedRuns
                /\ PathA \in DOMAIN xruns[k].St.Files
                /\ DestPath \in DOMAIN xruns[k].St.Files
                /\ DestPath # PathA => xruns[k].St.Files[DestPath] = xruns[k].Pre.Files[PathA]
                /\ k = xaction.Retries + 1 => xerr # ""

\* C19 witness: the only attempt of a move to {dir}/x/{name} copied the
\* file and could not remove the source; Execute returned an error and
\* both files are there
C19_Witness ==
    /\ ExecDone
    /\ ~xdry
    /\ xaction.Dest = TplArchive
    /\ Len(xruns) = 1
    /\ CopiedNotRemoved(1)
    /\ xerr # ""
    /\ PathA \in DOMAIN xst.Files
    /\ DestPath \in DOMAIN xst.Files
    /\ xst.Files[DestPath] = "A"

\* C20: after a move or rename that returned nil outside dry-run, the
\* source path does not exist and the destination holds the source's
\* content.
C20_MoveSuccess ==
    (ExecDone /\ ~xdry /\ xaction.Type \in {"move", "rename"} /\ xerr = "") =>
        /\ ~Exists(xst, PathA)
        /\ DestPath \in DOMAIN xst.Files
        /\ xst.Files[DestPath] = "A"

\* the POST of the k-th attempt returned an error: the ctx was done, or
\* no answer came before the timeout, or client.Do failed
PostError(k) ==
    xruns[k].Spawned /\ (xruns[k].Ctx \/ xruns[k].Env.Slow \/ xruns[k].Env.Fail = "Do")

\* the POST of the k-th attempt returned a response with a status >= 300
PostRefused(k) ==
    /\ xruns[k].Spawned
    /\ ~xruns[k].Ctx
    /\ ~xruns[k].Env.Slow
    /\ xruns[k].Env.Fail = "none"
    /\ xruns[k].Env.Status >= 300

\* C21: a webhook attempt is a failure exactly when the POST returns a
\* transport error or a status >= 300.
C21_FailureIffPostFails ==
    (ExecDone /\ xaction.Type = "webhook") =>
        \A k \in 1..Len(xruns) : k \in FailedRuns <=> (PostError(k) \/ PostRefused(k))

\* C21, as the code has it: an attempt that sends its POST is a failure
\* exactly when the POST returns a transport error or a status >= 300; an
\* attempt that sends none is a failure exactly when the request could not
\* be built from the expanded url (h/% for the file /w/a), and a success
\* when the url expands to nothing.
C21_FailureIffPostOrRequestFails ==
    (ExecDone /\ xaction.Type = "webhook") =>
        \A k \in 1..Len(xruns) :
            /\ xruns[k].Spawned => (k \in FailedRuns <=> (PostError(k) \/ PostRefused(k)))
            /\ ~xruns[k].Spawned => (k \in FailedRuns <=> xaction.URL = TplBadEscape)
            /\ xruns[k].Spawned <=> xaction.URL = TplHook

\* C21 witness: the first POST was answered with status 300 and counted as
\* a failure, the retry was answered with 299 and Execute returned nil
C21_Witness ==
    /\ ExecDone
    /\ ~xdry
    /\ xaction.Type = "webhook"
    /\ Len(xruns) = 2
    /\ xruns[1].Spawned /\ xruns[1].Env.Status = 300 /\ 1 \in FailedRuns
    /\ xruns[2].Spawned /\ xruns[2].Env.Status = 299 /\ 2 \notin FailedRuns
    /\ xerr = ""

----------------------------------------------------------------------------
(* Properties of the worker                                                 *)

\* the place of a kind of event in the order modify, move, create, delete
Rank(type) ==
    CASE type = "modify" -> 1
      [] type = "move" -> 2
      [] type = "create" -> 3
      [] type = "delete" -> 4

InCategoryOrder(evs) ==
    \A i, j \in 1..Len(evs) : i < j => Rank(evs[i].Type) <= Rank(evs[j].Type)

\* C9: within one poll cycle the worker hands the events to handleEvent one
\* after another in the order Diff returned them, and that order is all
\* modify events, then all moves, then all creates, then all deletes.
C9_DispatchInDiffOrder ==
    wpc \notin {"idle", "start"} =>
        /\ Len(handled) + Len(pending) = Len(returned)
        /\ \A i \in 1..Len(handled) : handled[i].Event = returned[i]
        /\ \A i \in 1..Len(pending) : pending[i] = returned[Len(handled) + i]
        /\ InCategoryOrder(returned)
        /\ InCategoryOrder([i \in 1..Len(handled) |-> handled[i].Event])

\* C9 witness: a cycle whose three events, a modify, a move and a delete,
\* have all been dispatched
C9_Witness ==
    /\ wpc = "select"
    /\ pending = <<>>
    /\ Len(handled) = 3
    /\ handled[1].Event.Type = "modify" /\ handled[1].Accepted
    /\ handled[2].Event.Type = "move" /\ handled[2].Accepted
    /\ handled[3].Event.Type = "delete" /\ handled[3].Accepted

----------------------------------------------------------------------------
(* Properties of the polling loop                                           *)

\* a step of Worker.Run that takes a tick and scans
ScanStep == ticks' = ticks + 1

\* the entries the directory held at the last scan, or at the start of the
\* worker before any scan, that are the same at this scan
Same == {p \in DOMAIN fs \cap DOMAIN fs' : fs[p] = fs'[p]}

\* C22: no event is dispatched for an entry that existed when the worker
\* started and has not changed since, whether scans fail or not.  An entry
\* unchanged since the start is unchanged from each scan to the next one,
\* and the directory of a failed scan is the one of the scan before it.
C22_NoEventForUnchanged ==
    [][ScanStep =>
          \A p \in Same :
              \A i \in 1..Len(pending') : pending'[i].Path # p]_vars

\* C23: a tick whose scan fails changes neither the previous snapshot nor
\* the debounce table nor the counters, dispatches no event and leaves the
\* worker waiting for the next tick.
C23_FailedScanSkipsCycle ==
    [][(ScanStep /\ scanErr') =>
          /\ wprev' = wprev
          /\ debounceMap' = debounceMap
          /\ tracker' = tracker
          /\ history' = history
          /\ handled' = handled
          /\ pending' = <<>>
          /\ wpc' = "select"]_vars

\* C23 witness: the second tick failed to scan, after a first one whose
\* event was dispatched; the snapshot, the debounce table and the counters
\* of the first are still there
C23_Witness ==
    /\ scanErr
    /\ ticks = 2
    /\ wpc = "select"
    /\ PathA \in DOMAIN wprev
    /\ PathA \in DOMAIN debounceMap
    /\ tracker[cfg.Path].EventsSeen = 1
    /\ Len(handled) = 1

----------------------------------------------------------------------------
(* Properties of the debounce                                               *)

\* the debounce window of the worker, in nanoseconds
Window == Duration(cfg.Debounce)

\* the calls of handleEvent for the path p, oldest first, as indices into
\* the history h
CallsFor(h, p) == {i \in 1..Len(h) : h[i].Path = p}

\* the last call among the calls S, 0 if there is none
Latest(S) == IF S = {} THEN 0 ELSE CHOOSE i \in S : \A j \in S : j <= i

\* the last accepted trigger of the path p, 0 if there is none
LastAccepted(p) == Latest({i \in CallsFor(history, p) : history[i].Accepted})

\* a step that is a call of handleEvent, and the call as the history has it
Handling == Len(history') = Len(history) + 1
Call == history'[Len(history')]

\* C24: an event for P that arrives less than the window after P's last
\* accepted trigger is not dispatched (handleEvent returns at once, with no
\* counter moved, no match and no action) and leaves P's debounce timestamp
\* where it is.
C24_SuppressedInWindow ==
    [][Handling =>
          LET k == LastAccepted(Call.Path)
          IN  (k > 0 /\ Call.At - history[k].At < Window) =>
                  /\ ~Call.Accepted
                  /\ tracker' = tracker
                  /\ debounceMap' = debounceMap
                  /\ hcall' = NoCall]_vars

\* C24, as the code has it: the same, unless P's last accepted trigger was
\* a delete, which leaves no timestamp behind.
C24_SuppressedInWindowUnlessDeleted ==
    [][Handling =>
          LET k == LastAccepted(Call.Path)
          IN  (k > 0 /\ history[k].Type # "delete" /\ Call.At - history[k].At < Window) =>
                  /\ ~Call.Accepted
                  /\ tracker' = tracker
                  /\ debounceMap' = debounceMap
                  /\ hcall' = NoCall]_vars

\* C24 witness: /w/a was created and dispatched, written one clock step
\* later and suppressed, written again one more step later and dispatched:
\* the window ran from the create, not from the suppressed modify
C24_Witness ==
    /\ Window = 2 * ClockStep
    /\ Len(history) = 3
    /\ \A i \in 1..3 : history[i].Path = PathA
    /\ history[1].Type = "create" /\ history[1].Accepted
    /\ history[2].Type = "modify" /\ ~history[2].Accepted
    /\ history[2].At = history[1].At + ClockStep
    /\ history[3].Type = "modify" /\ history[3].Accepted
    /\ history[3].At = history[1].At + 2 * ClockStep
    /\ tracker[cfg.Path].EventsSeen = 2

\* C25: after a delete event for P, the next create event for P is
\* dispatched, whatever happened on P before the delete.
C25_CreateAfterDeleteDispatched ==
    \A j \in 1..Len(history) :
        LET i == Latest({k \in CallsFor(history, history[j].Path) : k < j})
        IN  (i > 0 /\ history[i].Type = "delete" /\ history[j].Type = "create") =>
                history[j].Accepted

\* the accepted calls of handleEvent for the same path, an earlier and a
\* later one
AcceptedPairs ==
    {p \in (1..Len(history)) \X (1..Len(history)) :
        /\ p[1] < p[2]
        /\ history[p[1]].Path = history[p[2]].Path
        /\ history[p[1]].Accepted
        /\ history[p[2]].Accepted}

\* C26: any two accepted events for the same path are at least the window
\* apart.
C26_AcceptedWindowApart ==
    \A p \in AcceptedPairs : history[p[2]].At - history[p[1]].At >= Window

\* the later call is the first accepted one for the path after a delete
FollowsDelete(p) ==
    /\ history[p[1]].Type = "delete"
    /\ \A k \in CallsFor(history, history[p[1]].Path) :
           (p[1] < k /\ k < p[2]) => ~history[k].Accepted

\* C26, as the code has it: any two accepted events for the same path are
\* at least the window apart, but for an accepted delete and the accepted
\* event that follows it.
C26_AcceptedWindowApartUnlessDeleted ==
    \A p \in AcceptedPairs :
        ~FollowsDelete(p) => history[p[2]].At - history[p[1]].At >= Window

\* C26 witness: two accepted events for /w/a, the first not a delete,
\* exactly the window apart, with a suppressed one between them
C26_Witness ==
    /\ Len(history) = 3
    /\ <<1, 3>> \in AcceptedPairs
    /\ ~history[2].Accepted
    /\ history[1].Type # "delete"
    /\ history[3].At - history[1].At = Window

----------------------------------------------------------------------------
(* Properties of the Supervisor and the Tracker                             *)

\* the goroutines of the watches
WorkerProcs == 1..Len(swatches)

\* C27: Supervisor.Run starts one worker for each watch of the
\* configuration, never two, and has not returned while a worker it started
\* is running: when it returns, the context is cancelled and every worker
\* has left its loop and ended.
C27_OneWorkerEachAndWait ==
    /\ \A i \in WorkerProcs :
          sprocs[i].started = IF i < sup.next THEN 1 ELSE 0
    /\ sup.pc = "returned" =>
          /\ sup.next = Len(swatches) + 1
          /\ sctx
          /\ \A i \in WorkerProcs : sprocs[i].pc = "done"

\* C27 witness: Run has returned for a configuration of two watches, each
\* worker having dispatched events before the cancellation reached it
C27_Witness ==
    /\ sup.pc = "returned"
    /\ Len(swatches) = 2
    /\ \A i \in WorkerProcs : sprocs[i].started = 1 /\ sprocs[i].cycles = MaxCycles

\* the calls of a method on a key that have returned
CallsOf(op, key) == IF <<op, key>> \in DOMAIN scalls THEN scalls[<<op, key>>] ELSE 0

\* the calls on a key that have done their increment of the field and
\* have not yet returned
Pending(field, key) ==
    Cardinality({p \in WorkerProcs :
        /\ sprocs[p].key = key
        /\ sprocs[p].pc \in {"stmt", "store", "unlock"}
        /\ \E j \in 1..(sprocs[p].stmt - 1) : Body(sprocs[p])[j] = Inc(field)})

\* the keys the workers count under
TrackerKeys ==
    UNION {{swatches[i], ActionKey([Path |-> swatches[i]], [Name |-> "a1"])} : i \in WorkerProcs}

\* C30: no increment is lost, whatever the interleaving of the calls of the
\* workers and of the reader: the EventsSeen of a key is the number of
\* IncEvent calls on it that have returned or done their increment, its
\* ActionsRun the number of such IncAction calls, and its ActionsOK and
\* ActionsError together the number of IncAction calls that have returned
\* or counted their outcome.
C30_NoLostIncrement ==
    \A key \in TrackerKeys :
        LET c == ensure(strk, key)[key]
        IN  /\ c.EventsSeen = CallsOf("IncEvent", key) + Pending("EventsSeen", key)
            /\ c.ActionsRun = CallsOf("IncAction", key) + Pending("ActionsRun", key)
            /\ c.ActionsOK + c.ActionsError =
                  CallsOf("IncAction", key) + Pending("ActionsOK", key)
                      + Pending("ActionsError", key)

\* C30 witness: two workers of the same directory have each made MaxCycles
\* IncEvent and IncAction calls on the same keys and the reader a Snapshot,
\* and the counters show all of them
C30_Witness ==
    /\ swatches = <<Root, Root>>
    /\ \A p \in 0..2 : sprocs[p].pc \in {"idle", "select"}
    /\ CallsOf("Snapshot", <<>>) = 1
    /\ CallsOf("IncEvent", Root) = 2 * MaxCycles
    /\ strk[Root].EventsSeen = 2 * MaxCycles
    /\ strk[ActionKey([Path |-> Root], [Name |-> "a1"])].ActionsRun = 2 * MaxCycles

----------------------------------------------------------------------------
(* Properties of the loop of Worker.Run                                     *)

\* C28: a worker starts a scan only when every event of its previous cycle
\* has been handed to handleEvent and handleEvent has returned for each
\* (with all the selected actions run): no scan while a dispatch is under
\* way.
C28_NoOverlap ==
    [][ScanStep =>
          /\ wpc = "select"
          /\ hcall = NoCall
          /\ pending = <<>>
          /\ Len(handled) = Len(returned)
          /\ \A i \in 1..Len(returned) : handled[i].Event = returned[i]]_vars

\* C28 witness: the second cycle of a worker has begun, with an event to
\* dispatch, after the event of its first cycle was handled
C28_Witness ==
    /\ ticks = 2
    /\ wpc = "dispatch"
    /\ Len(pending) = 1
    /\ handled = <<>>
    /\ Len(history) = 1
    /\ history[1].Accepted

\* C29: once the context is cancelled, a worker at the top of its loop
\* starts no further poll cycle: it takes no tick and makes no scan.
C29_NoCycleAfterCancel ==
    [][cancelled => ~ScanStep]_vars

----------------------------------------------------------------------------
(* Properties of the dispatch                                               *)

\* the counter of the action a of the worker's watch in the tracker t, the
\* zero counter if the key has none yet
CounterOf(t, a) == ensure(t, ActionKey(cfg, a))[ActionKey(cfg, a)]

\* Execute has returned an error for the action the loop is at, and
\* handleEvent goes on
Failing == wpc = "returned" /\ wpc' # "returned"
                /\ Execute(dryRun, Current, hcall.Results).Err # ""

\* C31: a final failure of an action does not stop the worker.  When
\* Execute has returned an error, the failure is counted with its message,
\* and handleEvent goes on with the next selected action of the event, or
\* returns to the loop over the events of the cycle, or to the select when
\* there is none; and the worker stops only when the context is cancelled.
C31_FailureDoesNotStop ==
    /\ [][Failing =>
             /\ CounterOf(tracker', Current).ActionsError
                   = CounterOf(tracker, Current).ActionsError + 1
             /\ CounterOf(tracker', Current).LastError
                   = Execute(dryRun, Current, hcall.Results).Err
             /\ pending' = pending
             /\ IF hcall.I < Len(hcall.Sel)
                THEN /\ wpc' = "action"
                     /\ hcall'.Event = hcall.Event
                     /\ hcall'.Sel = hcall.Sel
                     /\ hcall'.I = hcall.I + 1
                ELSE /\ hcall' = NoCall
                     /\ wpc' = IF pending = <<>> THEN "select" ELSE "dispatch"]_vars
    /\ [](wpc = "dispatch" => pending # <<>>)
    /\ [](wpc = "stopped" => cancelled)

\* C31 witness: the exec action failed on all its attempts for each of the
\* three events it was selected for, two creates of one cycle and a modify
\* of the next cycle; the webhook action was run for the same creates and
\* for the delete of the second cycle
C31_Witness ==
    /\ ~dryRun
    /\ ticks = 2
    /\ wpc = "select"
    /\ Len(history) = 4
    /\ history[1].Type = "create" /\ history[2].Type = "create"
    /\ history[3].Type = "modify" /\ history[4].Type = "delete"
    /\ CounterOf(tracker, cfg.Actions[1]).ActionsError = 3
    /\ CounterOf(tracker, cfg.Actions[1]).LastError = ErrNames[MaxRetries + 1]
    /\ CounterOf(tracker, cfg.Actions[2]).ActionsRun = 3

----------------------------------------------------------------------------
(* Properties of the events of Diff                                         *)

\* C32: every event Diff returns, delete events included, has as its age
\* the current time minus the modification time of the record it carries,
\* and a previous path exactly when it is a move.
C32_AgeOfEveryEvent ==
    dpc = "done" =>
        \A i \in 1..Len(events) :
            /\ events[i].Age = now - events[i].Info.ModTime
            /\ events[i].PrevPath # <<>> <=> events[i].Type = "move"

----------------------------------------------------------------------------
(* Properties of the retry loop                                             *)

\* the calls of the runner that returned nil
SucceededRuns == {k \in 1..Len(xruns) : xruns[k].Err = ""}

\* C33: outside dry-run, Execute calls the runner at least once and at most
\* Retries + 1 times, and the number of calls is the index of the first
\* call that succeeded, or Retries + 1 when none did: no call follows a
\* success.
C33_AttemptCount ==
    (ExecDone /\ ~xdry) =>
        /\ Len(xruns) >= 1
        /\ Len(xruns) <= xaction.Retries + 1
        /\ Len(xruns) = IF SucceededRuns = {} THEN xaction.Retries + 1
                        ELSE CHOOSE k \in SucceededRuns : \A j \in SucceededRuns : k <= j

\* C33 witness: an action with one retry whose first attempt succeeded was
\* run once
C33_Witness ==
    /\ ExecDone
    /\ ~xdry
    /\ xaction.Retries = 1
    /\ Len(xruns) = 1
    /\ SucceededRuns = {1}
    /\ xerr = ""

----------------------------------------------------------------------------
(* Properties of the reference snapshot                                     *)

\* C34: the previous snapshot is one generation back.  A tick whose scan
\* succeeds leaves the scan of that tick as the previous snapshot, before
\* any event of the cycle is handled; no step of handling an event,
\* dispatched with success, with an error or suppressed, touches it; so once events
\* have been handled, a later scan that finds the directory as it was
\* returns no event, whatever became of the actions.
C34_PrevIsLastScan ==
    /\ [][(ScanStep /\ ~scanErr') => wprev' = fs']_vars
    /\ [][(wpc # "start" /\ ~ScanStep) => wprev' = wprev]_vars
    /\ [][(ScanStep /\ ~scanErr' /\ history # <<>> /\ fs' = fs) => returned' = <<>>]_vars

\* C34 witness: the create of /w/a was dispatched and its exec action
\* failed; the next tick scanned the same directory and returned no event
C34_Witness ==
    /\ ~dryRun
    /\ ticks = 2
    /\ ~scanErr
    /\ wpc = "select"
    /\ returned = <<>>
    /\ wprev = fs
    /\ Len(history) = 1
    /\ history[1].Path = PathA /\ history[1].Type = "create"
    /\ CounterOf(tracker, cfg.Actions[1]).ActionsError = 1

----------------------------------------------------------------------------
(* Properties of the shutdown                                               *)

\* C35: once the context is cancelled, every worker leaves its loop and
\* ends, and Supervisor.Run returns, the dispatch each worker is in coming
\* to its end.
C35_ShutdownLive ==
    sctx ~> (sup.pc = "returned" /\ \A i \in WorkerProcs : sprocs[i].pc = "done")

\* C35 witness: the context was cancelled while one worker was inside a
\* Tracker method of a dispatch and the other waited for the mutex, Run
\* being in wg.Wait()
C35_Witness ==
    /\ sctx
    /\ Len(swatches) = 2
    /\ sup.pc = "loop" /\ sup.next = 3 /\ sup.wg = 2
    /\ sprocs[1].pc = "store" /\ sprocs[1].op = "IncEvent"
    /\ sprocs[2].pc = "lock"

----------------------------------------------------------------------------
(* Properties of the dispatch under cancellation                            *)

\* C36: once the context is cancelled, no runner is called any more:
\* Execute makes no call of run(), neither the first one of an action of
\* the event under way or of a later event of the cycle, nor a retry.
C36_NoRunnerAfterCancel ==
    [][cancelled => ~(wpc = "action" /\ wpc' = "running")]_vars

----------------------------------------------------------------------------
(* Properties of suppressed events                                          *)

\* the last call of handleEvent for the path p was suppressed
LastSuppressed(p) ==
    LET k == Latest(CallsFor(history, p))
    IN  k > 0 /\ ~history[k].Accepted

\* the entry p is the same, or as absent, at this scan as at the last one
Still(p) ==
    /\ p \in DOMAIN fs <=> p \in DOMAIN fs'
    /\ p \in DOMAIN fs => fs[p] = fs'[p]

\* C37: a suppressed event is dropped, not deferred.  The call that
\* suppresses it runs nothing and counts nothing; a later scan returns no
\* event for its path as long as the entry does not change again; and the
\* events counted are at every time exactly the calls that passed the
\* debounce, so no suppressed change is made up for later on.
C37_SuppressedIsDropped ==
    /\ [][(Handling /\ ~Call.Accepted) => (tracker' = tracker /\ hcall' = NoCall)]_vars
    /\ [][(ScanStep /\ ~scanErr') =>
             \A p \in Paths :
                 (LastSuppressed(p) /\ Still(p)) =>
                     \A i \in 1..Len(returned') : returned'[i].Path # p]_vars
    /\ [](wpc \in {"select", "dispatch", "stopped"} =>
             ensure(tracker, cfg.Path)[cfg.Path].EventsSeen
                = Cardinality({i \in 1..Len(history) : history[i].Accepted}))

\* C37 witness: /w/a was created and dispatched, written to within the
\* window and suppressed; the tick after that found it as it was and
\* returned no event, and the write has triggered nothing
C37_Witness ==
    /\ ticks = 3
    /\ ~scanErr
    /\ wpc = "select"
    /\ returned = <<>>
    /\ Len(history) = 2
    /\ history[1].Path = PathA /\ history[1].Type = "create" /\ history[1].Accepted
    /\ history[2].Path = PathA /\ history[2].Type = "modify" /\ ~history[2].Accepted
    /\ fs[PathA] = WorkerInfoWritten
    /\ tracker[cfg.Path].EventsSeen = 1
    /\ CounterOf(tracker, cfg.Actions[1]).ActionsRun = 1

----------------------------------------------------------------------------
(* Properties of the counters                                               *)

\* the counts of a counter are not negative and its runs are its successes
\* plus its errors
Sound(c) ==
    /\ c.EventsSeen >= 0 /\ c.ActionsRun >= 0 /\ c.ActionsOK >= 0 /\ c.ActionsError >= 0
    /\ c.ActionsRun = c.ActionsOK + c.ActionsError

\* every counter of the map m is in the map n, with no count lower
NotBelow(m, n) ==
    \A k \in DOMAIN m :
        /\ k \in DOMAIN n
        /\ n[k].EventsSeen >= m[k].EventsSeen
        /\ n[k].ActionsRun >= m[k].ActionsRun
        /\ n[k].ActionsOK >= m[k].ActionsOK
        /\ n[k].ActionsError >= m[k].ActionsError

\* the map the last call of Snapshot gave the reader, empty before any
Held == sprocs[Reader].reg

\* C38: in every reachable state every counter of the Tracker, and every
\* counter of a map Snapshot returned, has non-negative counts with
\* ActionsRun = ActionsOK + ActionsError; no step lowers a count of the
\* Tracker, so the Tracker is never below a map returned earlier; and a
\* step that changes the Tracker leaves the returned map as it is.
C38_CountersSound ==
    /\ [](\A k \in DOMAIN strk : Sound(strk[k]))
    /\ [](\A k \in DOMAIN Held : Sound(Held[k]))
    /\ [][NotBelow(strk, strk')]_vars
    /\ [](sprocs[Reader].pc = "idle" => NotBelow(Held, strk))
    /\ [][strk' # strk => Held' = Held]_vars

\* the calls of IncAction on the key k that have done c.ActionsRun++ and
\* not yet c.ActionsOK++ or c.ActionsError++
Halfway(k) ==
    {p \in WorkerProcs :
        /\ sprocs[p].op = "IncAction" /\ sprocs[p].key = k
        /\ sprocs[p].pc \in {"stmt", "store"} /\ sprocs[p].stmt = 2}

\* C38, as the code has it: the counts are never negative and never go
\* down; ActionsRun = ActionsOK + ActionsError holds of every counter
\* whenever the mutex of the Tracker is free and of every counter of a map
\* Snapshot returned; while a call of IncAction holds the mutex between
\* its two increments, the counter of its key, and no other, has
\* ActionsRun = ActionsOK + ActionsError + 1; a map Snapshot returned is
\* not changed by later increments.
C38_CountersSoundOutsideIncAction ==
    /\ [](\A k \in DOMAIN strk :
            /\ strk[k].EventsSeen >= 0 /\ strk[k].ActionsRun >= 0
            /\ strk[k].ActionsOK >= 0 /\ strk[k].ActionsError >= 0
            /\ Halfway(k) \subseteq {smu}
            /\ strk[k].ActionsRun =
                  strk[k].ActionsOK + strk[k].ActionsError + Cardinality(Halfway(k)))
    /\ [](smu = NoProc => \A k \in DOMAIN strk : Sound(strk[k]))
    /\ [](\A k \in DOMAIN Held : Sound(Held[k]))
    /\ [][NotBelow(strk, strk')]_vars
    /\ [](sprocs[Reader].pc = "idle" => NotBelow(Held, strk))
    /\ [][strk' # strk => Held' = Held]_vars

\* C38 witness: the reader holds a map taken after the first dispatch of
\* the worker, one event and one failed action; the worker is in its
\* second call of IncAction, between the two increments, and the map
\* still shows the counts of its time
C38_Witness ==
    /\ swatches = <<Root>>
    /\ sprocs[Reader].pc = "idle"
    /\ DOMAIN Held = {Root, ActionKey([Path |-> Root], [Name |-> "a1"])}
    /\ Held[Root].EventsSeen = 1
    /\ Held[ActionKey([Path |-> Root], [Name |-> "a1"])].ActionsRun = 1
    /\ Held[ActionKey([Path |-> Root], [Name |-> "a1"])].ActionsError = 1
    /\ strk[Root].EventsSeen = 2
    /\ Halfway(ActionKey([Path |-> Root], [Name |-> "a1"])) = {1}
    /\ strk[ActionKey([Path |-> Root], [Name |-> "a1"])].ActionsRun = 2
    /\ strk[ActionKey([Path |-> Root], [Name |-> "a1"])].ActionsOK = 0
    /\ strk[ActionKey([Path |-> Root], [Name |-> "a1"])].ActionsError = 1

----------------------------------------------------------------------------
(* Properties of the accounting                                             *)

\* the counter of the watched directory in the tracker t
DirCounter(t) == ensure(t, cfg.Path)[cfg.Path]

\* the calls of handleEvent that passed the debounce
AcceptedCalls == {i \in 1..Len(history) : history[i].Accepted}

\* C39: whenever no call of handleEvent is under way, the EventsSeen of
\* the directory key is the number of calls that passed the debounce,
\* whether actions were selected or not, and nothing else is counted on
\* that key; for each action of the watch, the ActionsRun of its key is the
\* number of those calls for which Match selects it, each run counted once
\* as a success or as an error; no other key appears.  No call of run()
\* moves a counter, however many attempts are made, and a suppressed call
\* leaves the tracker as it is.
C39_AccountingPerDispatch ==
    /\ [](hcall = NoCall /\ wpc # "start" =>
             /\ DirCounter(tracker).EventsSeen = Cardinality(AcceptedCalls)
             /\ DirCounter(tracker).ActionsRun = 0
             /\ \A i \in 1..Len(cfg.Actions) :
                   LET c == CounterOf(tracker, cfg.Actions[i])
                   IN  /\ c.ActionsRun
                            = Cardinality({k \in AcceptedCalls :
                                             cfg.Actions[i].Name \in history[k].Selected})
                       /\ c.ActionsOK + c.ActionsError = c.ActionsRun
                       /\ c.EventsSeen = 0
             /\ DOMAIN tracker \subseteq
                   {cfg.Path} \cup {ActionKey(cfg, cfg.Actions[i]) : i \in 1..Len(cfg.Actions)})
    /\ [][(~dryRun /\ wpc \in {"action", "running"}) => tracker' = tracker]_vars
    /\ [][(Handling /\ ~Call.Accepted) => tracker' = tracker]_vars

\* C39 witness: four calls.  The create of /w/a selected both actions and
\* the exec action failed after its retry; a move selected no action and
\* was counted as an event; the modify and the delete that came within the
\* window were suppressed and counted nowhere
C39_Witness ==
    /\ ~dryRun
    /\ Len(history) = 4
    /\ history[1].Type = "create" /\ history[1].Accepted
    /\ history[2].Type = "move" /\ history[2].Accepted
    /\ ~history[3].Accepted /\ ~history[4].Accepted
    /\ DirCounter(tracker).EventsSeen = 2
    /\ CounterOf(tracker, cfg.Actions[1]).ActionsRun = 1
    /\ CounterOf(tracker, cfg.Actions[1]).ActionsError = 1
    /\ CounterOf(tracker, cfg.Actions[1]).LastError = ErrNames[MaxRetries + 1]
    /\ CounterOf(tracker, cfg.Actions[2]).ActionsRun = 1

----------------------------------------------------------------------------
(* Properties of Expand                                                     *)

\* C40: Expand is a function of the template and the context: whatever
\* the order in which the range visits the tokens, the string returned is
\* the one the order of the table gives, also when a value of the context,
\* such as the name of the file, contains the text of a token.
C40_ExpandOrderIndependent ==
    tpc = "done" => tout = Expand(tin, tctx, [k \in 1..Len(Tokens) |-> k])

====
